---- MODULE Spec2Model ----
(***************************************************************************)
(* A model of likebike/jsonface (lib.go): JSON unmarshalling into Go       *)
(* interfaces through "stunt double" shadow types.                         *)
(*                                                                         *)
(* Types are reflect.Type descriptors (records tagged by kind), values are *)
(* reflect.Value contents (records tagged by t), input bytes are JSON      *)
(* documents kept as syntax trees (records tagged by j), errors are        *)
(* records tagged by kind.                                                 *)
(***************************************************************************)
EXTENDS Integers, Sequences, FiniteSets, TLC

(***************************************************************************)
(* Bounds of the model.                                                    *)
(***************************************************************************)
\* The number of wrappers (pointer, array, slice, struct, map) around a leaf type.
MaxDepth == 2
\* The number of elements of a JSON array and of members of a JSON object.
MaxLen == 2
\* The number of threads that use the global registry.
NumThreads == 2

(***************************************************************************)
(* Type descriptors (reflect.Type).                                        *)
(***************************************************************************)
TInt == [kind |-> "int"]
TString == [kind |-> "string"]
TChan == [kind |-> "chan"]
TIface(n) == [kind |-> "iface", name |-> n]
TPtr(t) == [kind |-> "ptr", elem |-> t]
TSlice(t) == [kind |-> "slice", elem |-> t]
TArray(n, t) == [kind |-> "array", len |-> n, elem |-> t]
TMap(k, v) == [kind |-> "map", key |-> k, elem |-> v]
TStruct(fs) == [kind |-> "struct", fields |-> fs]
\* A named struct type of the caller with a field of type t and, on its
\* pointer, an UnmarshalJSON method.
TCustom(t) == [kind |-> "custom", elem |-> t]
\* A struct field; exported is false for a field whose name starts in lower case.
Field(n, t) == [name |-> n, type |-> t, exported |-> TRUE]
\* A field that is not exported (its PkgPath is set).
PrivField(n, t) == [name |-> n, type |-> t, exported |-> FALSE]

\* type Food interface{}: an interface without methods.
NameFood == "jsonface_test.Food"
\* realType.NumMethod() == 0 for an interface type.
IsEmptyInterface(t) == t.kind = "iface" /\ t.name = NameFood

\* The interfaces of the caller: I has a resolver in the registry, J has none.
NameI == "jsonface.I"
NameJ == "jsonface.J"

\* A declared type, as the type of a field or an element: reflect gives the
\* declared type itself for Elem(), Key() and Field(i).Type.
TNamed(n) == [kind |-> "decl", name |-> n]
\* The declarations:
\*   type Node  struct { Next *Node }
\*   type NodeI struct { V I; Next *NodeI }
\*   type List  []List
\*   type Tree  map[string]Tree
\*   type Cow   struct { Name string; Ate []Food }
Declared(n) ==
    CASE n = "Node" -> TStruct(<<Field("Next", TPtr(TNamed("Node")))>>)
      [] n = "NodeI" -> TStruct(<<Field("V", TIface(NameI)), Field("Next", TPtr(TNamed("NodeI")))>>)
      [] n = "List" -> TSlice(TNamed("List"))
      [] n = "Tree" -> TMap(TString, TNamed("Tree"))
      [] n = "Cow" -> TStruct(<<Field("Name", TString), Field("Ate", TSlice(TIface(NameFood)))>>)
\* The type with its kind, element, key and fields.
RealTypeOf(t) == IF t.kind = "decl" THEN Declared(t.name) ELSE t

\* type StuntDouble string, with MarshalJSON and (on the pointer) UnmarshalJSON.
STUNT_TYPE == [kind |-> "stunt"]

\* The kinds stuntdoubleType and stuntdoubleToReal return unchanged or copy.
PrimitiveKinds == {"int", "string"}

\* An Implements test that looks at the pointer type's methods only.
ImplementsByPointerOnly(t) == t.kind \in {"stunt", "custom"}

\* reflect.PtrTo(t).Implements(json.Unmarshaler), likewise for
\* encoding.TextUnmarshaler: the pointer to an interface has no methods.
PtrImplementsUnmarshaler(t) == t.kind \in {"stunt", "custom"}
\* An interface type with UnmarshalJSON among its methods, as
\* type U interface { F(); json.Unmarshaler }.
NameU == "jsonface.U"
\* realType.Implements(json.Unmarshaler) or its pointer type does, likewise
\* for encoding.TextUnmarshaler.
ImplementsUnmarshaler(t) ==
    PtrImplementsUnmarshaler(t) \/ (t.kind = "iface" /\ t.name = NameU)

\* A type name that is the same for every interface.
TypeStringOneName(t) ==
    CASE t.kind = "iface" -> "jsonface.I"
      [] t.kind = "stunt" -> "jsonface.StuntDouble"
      [] OTHER -> t.kind

\* reflect.Type.String(), the registry key of a type.
TypeString(t) ==
    CASE t.kind = "iface" -> t.name
      [] t.kind = "stunt" -> "jsonface.StuntDouble"
      [] OTHER -> t.kind

(***************************************************************************)
(* Errors.                                                                 *)
(***************************************************************************)
NoErr == [kind |-> "nil"]
\* errors.New(msg)
ErrNew(m) == [kind |-> "new", msg |-> m]
\* fmt.Errorf(msg + ": %v", e): a new error that only holds e's text.
ErrFmt(m, e) == [kind |-> "fmt", msg |-> m, inner |-> e]
\* An error a resolver made.
ErrUser(m) == [kind |-> "user", msg |-> m]
\* An error of the generic decoder (encoding/json).
ErrJson(m) == [kind |-> "json", msg |-> m]
\* A run-time panic that unwinds the call (it is no returned error).
Panic(m) == [kind |-> "panic", msg |-> m]

\* fmt.Errorf(msg + ": %v", e) where e came from a call: a panic in the call
\* unwinds past the caller, it is no error value that could be wrapped.
Errorf(m, e) == IF e.kind = "panic" THEN e ELSE ErrFmt(m, e)

\* type cbErr struct { e error }
cbErr(e) == [kind |-> "cbErr", inner |-> e]

\* fmtErr without the test for a cbErr: every level adds its context.
fmtErrWrapsAll(msg, e) ==
    IF e = NoErr THEN NoErr
    ELSE IF e.kind = "panic" THEN e
    ELSE ErrFmt(msg, e)

\* A fmtErr that adds nothing to the error.
fmtErrDropsContext(msg, e) == e

\* (A panic is no error value: it unwinds through every caller unchanged.)
fmtErr(msg, e) ==
    IF e = NoErr THEN NoErr
    ELSE IF e.kind = "cbErr" THEN e
    ELSE IF e.kind = "panic" THEN e
    ELSE ErrFmt(msg, e)

unwrapCBErr(e) ==
    IF e = NoErr THEN NoErr
    ELSE IF e.kind = "cbErr" THEN e.inner
    ELSE e

(***************************************************************************)
(* The registry (CBMap): a function from type names to resolvers.          *)
(***************************************************************************)
EmptyCBMap == [n \in {} |-> "none"]
\* A lookup that finds a resolver for every name.
HasAny(cbs, name) == TRUE
Has(cbs, name) == name \in DOMAIN cbs

(***************************************************************************)
(* stuntdoubleType: the shadow type of realType, whether any interface was *)
(* replaced, and an error.                                                 *)
(***************************************************************************)
\* A result that never tells that an interface was replaced.
SDResultNoStunt(t, has, e) == [type |-> t, hasStunt |-> FALSE, err |-> e]
SDResult(t, has, e) == [type |-> t, hasStunt |-> has, err |-> e]

\* What reflect.StructOf does with a field that is not exported: the Go
\* releases of the library's time panic ("StructOf does not allow unexported
\* fields", as the comment in stuntdoubleType says), later ones make the type.
VARIABLE structOf
StructOfOutcomes == {"panics", "allows"}

\* A reflect.StructOf that leaves out the first field.
StructOfDropsField(sdFields) == SDResult(TStruct(Tail(sdFields)), TRUE, NoErr)

\* reflect.StructOf(sdFields)
StructOf(sdFields) ==
    IF structOf = "panics" /\ \E i \in 1..Len(sdFields) : ~sdFields[i].exported
    THEN SDResult(TInt, FALSE, Panic("reflect.StructOf: StructOf does not allow unexported fields"))
    ELSE SDResult(TStruct(sdFields), TRUE, NoErr)

RECURSIVE stuntdoubleType(_, _)
RECURSIVE sdStructFields(_, _, _, _, _)

\* The loop over the fields of a struct: i is the next field, sdFields the
\* fields made so far, hasStunt the disjunction so far.
sdStructFields(realType, cbs, i, sdFields, hasStunt) ==
    IF i > Len(realType.fields)
    THEN IF ~hasStunt THEN SDResult(realType, FALSE, NoErr)
         ELSE StructOf(sdFields)
    ELSE LET sdField == realType.fields[i]
             r == stuntdoubleType(sdField.type, cbs)
         IN  IF r.err # NoErr
             THEN SDResult(TInt, FALSE,
                           IF r.err.kind = "panic" THEN r.err
                           ELSE [kind |-> "fmt", msg |-> "stuntdoubleType(struct field) error",
                                 ctx |-> sdField.name, inner |-> r.err])
             ELSE sdStructFields(realType, cbs, i + 1,
                                 Append(sdFields, [sdField EXCEPT !.type = r.type]),
                                 hasStunt \/ r.hasStunt)

stuntdoubleType(realType, cbs) ==
    IF ImplementsUnmarshaler(realType) THEN SDResult(realType, FALSE, NoErr)
    ELSE CASE realType.kind \in PrimitiveKinds -> SDResult(realType, FALSE, NoErr)
      [] realType.kind = "ptr" ->
            LET r == stuntdoubleType(realType.elem, cbs)
            IN  IF r.err # NoErr
                THEN SDResult(TInt, FALSE, Errorf("stuntdoubleType(ptr elem) error", r.err))
                ELSE IF ~r.hasStunt THEN SDResult(realType, FALSE, NoErr)
                ELSE SDResult(TPtr(r.type), TRUE, NoErr)
      [] realType.kind = "iface" ->
            IF ~Has(cbs, TypeString(realType)) THEN SDResult(realType, FALSE, NoErr)
            ELSE SDResult(STUNT_TYPE, TRUE, NoErr)
      [] realType.kind = "array" ->
            LET r == stuntdoubleType(realType.elem, cbs)
            IN  IF r.err # NoErr
                THEN SDResult(TInt, FALSE, Errorf("stuntdoubleType(array elem) error", r.err))
                ELSE IF ~r.hasStunt THEN SDResult(realType, FALSE, NoErr)
                ELSE SDResult(TArray(realType.len, r.type), TRUE, NoErr)
      [] realType.kind = "slice" ->
            LET r == stuntdoubleType(realType.elem, cbs)
            IN  IF r.err # NoErr
                THEN SDResult(TInt, FALSE, Errorf("stuntdoubleType(slice elem) error", r.err))
                ELSE IF ~r.hasStunt THEN SDResult(realType, FALSE, NoErr)
                ELSE SDResult(TSlice(r.type), TRUE, NoErr)
      [] realType.kind = "struct" ->
            sdStructFields(realType, cbs, 1, <<>>, FALSE)
      [] realType.kind = "map" ->
            LET k == stuntdoubleType(realType.key, cbs)
                v == stuntdoubleType(realType.elem, cbs)
            IN  IF k.err # NoErr
                THEN SDResult(TInt, FALSE, Errorf("stuntdoubleType(map key) error", k.err))
                ELSE IF v.err # NoErr
                THEN SDResult(TInt, FALSE, Errorf("stuntdoubleType(slice elem) error", v.err))
                ELSE IF ~(k.hasStunt \/ v.hasStunt) THEN SDResult(realType, FALSE, NoErr)
                ELSE SDResult(TMap(k.type, v.type), TRUE, NoErr)
      [] realType.kind = "chan" ->
            SDResult(TInt, FALSE, ErrNew("Chan unmarshal not yet implemented"))
      [] OTHER ->
            SDResult(TInt, FALSE, ErrNew("Unsupported Kind"))


(***************************************************************************)
(* Bytes: a JSON document as its syntax tree, or bytes that are no JSON.   *)
(***************************************************************************)
JNull == [j |-> "null"]
JNum(n) == [j |-> "num", n |-> n]
JStr(s) == [j |-> "str", s |-> s]
JArr(a) == [j |-> "arr", a |-> a]
\* o is a sequence of members [k |-> key, v |-> document]. A key is the
\* content of the key string: plain text, or text that is itself a document.
JObj(o) == [j |-> "obj", o |-> o]
Member(k, v) == [k |-> k, v |-> v]
JText(s) == [j |-> "text", s |-> s]
\* Zero bytes.
JEmpty == [j |-> "empty"]
\* Bytes with a syntax error.
JBad == [j |-> "bad"]

\* json.Valid: the generic decoder checks the whole input before it stores.
RECURSIVE Valid(_)
Valid(bs) ==
    CASE bs.j \in {"null", "num", "str"} -> TRUE
      [] bs.j = "arr" -> \A i \in 1..Len(bs.a) : Valid(bs.a[i])
      [] bs.j = "obj" -> \A i \in 1..Len(bs.o) : Valid(bs.o[i].v)
      [] OTHER -> FALSE

\* The string a key holds.
KeyString(k) == IF k.j = "text" THEN k.s ELSE ToString(k)

(***************************************************************************)
(* Values (the contents of a reflect.Value).                               *)
(***************************************************************************)
\* A nil pointer, slice, map, interface or channel.
VNil == [t |-> "nil"]
VInt(n) == [t |-> "int", n |-> n]
VStr(s) == [t |-> "str", s |-> s]
VPtr(v) == [t |-> "ptr", p |-> v]
\* A slice or an array.
VSeq(es) == [t |-> "seq", e |-> es]
VStruct(fs) == [t |-> "struct", f |-> fs]
\* A map: the set of its entries [k |-> key, v |-> value], with distinct keys.
VMap(ps) == [t |-> "map", m |-> ps]
Entry(k, v) == [k |-> k, v |-> v]
\* StuntDouble(bs)
VStunt(bs) == [t |-> "stunt", b |-> bs]
\* A value of the concrete type named ty, as an interface holds it.
VDyn(ty, d) == [t |-> "dyn", ty |-> ty, d |-> d]
\* reflect.ValueOf(nil): the zero reflect.Value.
VInvalid == [t |-> "invalid"]
\* A value of a type with an UnmarshalJSON method: what the method made of b.
VCustom(b) == [t |-> "custom", b |-> b]
\* What the generic decoder stores in an interface without methods for the
\* document b: a float64, a string, a []interface{}, a map[string]interface{}.
VGeneric(b) == [t |-> "generic", b |-> b]

\* A MarshalJSON that writes null for every placeholder.
MarshalJSONAlwaysNull(me) == [j |-> "null"]

\* func (me StuntDouble) MarshalJSON() ([]byte,error)
MarshalJSON(me) == IF me.b = JEmpty THEN JNull ELSE me.b

\* func (me *StuntDouble) UnmarshalJSON(bs []byte) error: me is the handle of
\* the receiver and what it points to.
UnmarshalJSON(me, bs) ==
    IF me.h # "ptr"
    THEN [val |-> me.val, err |-> ErrNew("jsonface.StuntDouble: UnmarshalJSON on nil pointer")]
    ELSE [val |-> VStunt(bs), err |-> NoErr]

RECURSIVE Zero(_)
\* reflect.New(t).Elem(): the zero value of a type.
Zero(t) ==
    CASE t.kind = "int" -> VInt(0)
      [] t.kind = "string" -> VStr("")
      [] t.kind = "stunt" -> VStunt(JEmpty)
      [] t.kind = "custom" -> VCustom(JEmpty)
      [] t.kind = "array" -> VSeq([i \in 1..t.len |-> Zero(t.elem)])
      [] t.kind = "struct" -> VStruct([i \in 1..Len(t.fields) |-> Zero(t.fields[i].type)])
      [] t.kind = "decl" -> Zero(Declared(t.name))
      [] OTHER -> VNil

\* reflect.Value.Index(n).Set(v), Field(n).Set(v): element n of the sequence s
\* becomes v.
SetIndex(s, n, v) == [i \in 1..Len(s) |-> IF i = n THEN v ELSE s[i]]

\* m[k] = v on a map's entries: the entry of an equal key is replaced.
SetMapIndex(ps, k, v) == {e \in ps : e.k # k} \cup {Entry(k, v)}

(***************************************************************************)
(* The generic decoder, encoding/json's Unmarshal, as lib.go uses it.      *)
(***************************************************************************)
DecResult(v, e) == [val |-> v, err |-> e]
FirstErr(e1, e2) == IF e1 # NoErr THEN e1 ELSE e2
TypeError == ErrJson("UnmarshalTypeError")

\* The kinds a map key may have: string, integer (StuntDouble is a string).
KeyKinds == {"string", "int", "stunt"}

RECURSIVE JsonDecode(_, _, _)
RECURSIVE decodeElems(_, _, _, _, _, _)
RECURSIVE decodeMembers(_, _, _, _)

\* The elements i.. of a JSON array into a slice or an array: out is what
\* was decoded so far, err the first error saved.
decodeElems(a, t, cur, i, out, err) ==
    IF i > Len(a) \/ (t.kind = "array" /\ i > t.len)
    THEN IF t.kind = "array"
         THEN DecResult(VSeq([n \in 1..t.len |-> IF n <= Len(out) THEN out[n] ELSE Zero(t.elem)]), err)
         ELSE DecResult(VSeq(out), err)
    ELSE LET old == IF cur.t = "seq" /\ i <= Len(cur.e) THEN cur.e[i] ELSE Zero(t.elem)
             r == JsonDecode(a[i], t.elem, old)
         IN  decodeElems(a, t, cur, i + 1, Append(out, r.val), FirstErr(err, r.err))

\* The members i.. of a JSON object into the struct or map value cur.
decodeMembers(o, t, cur, i) ==
    IF i > Len(o) THEN DecResult(cur, NoErr)
    ELSE LET mem == o[i]
         IN  IF t.kind = "struct"
             THEN LET hit == {n \in 1..Len(t.fields) :
                                 t.fields[n].exported /\ t.fields[n].name = KeyString(mem.k)}
                  IN  IF hit = {} THEN decodeMembers(o, t, cur, i + 1)
                      ELSE LET n == CHOOSE n \in hit : TRUE
                               r == JsonDecode(mem.v, t.fields[n].type, cur.f[n])
                               rest == decodeMembers(o, t, VStruct(SetIndex(cur.f, n, r.val)), i + 1)
                           IN  DecResult(rest.val, FirstErr(r.err, rest.err))
             ELSE LET r == JsonDecode(mem.v, t.elem, Zero(t.elem))
                      badKey == t.key.kind = "int" /\ mem.k.j # "num"
                      kv == CASE t.key.kind = "string" -> VStr(KeyString(mem.k))
                              [] t.key.kind = "stunt" -> VStunt(mem.k)
                              [] OTHER -> IF badKey THEN VNil ELSE VInt(mem.k.n)
                      next == IF badKey THEN cur ELSE VMap(SetMapIndex(cur.m, kv, r.val))
                      rest == decodeMembers(o, t, next, i + 1)
                  IN  DecResult(rest.val,
                                FirstErr(r.err, FirstErr(IF badKey THEN TypeError ELSE NoErr, rest.err)))

\* The decoder's value step: document doc into a value of type t that holds cur.
JsonDecode(doc, t, cur) ==
    IF PtrImplementsUnmarshaler(t)
    THEN DecResult(IF t.kind = "stunt"
                   THEN UnmarshalJSON([h |-> "ptr", type |-> t, val |-> cur], doc).val
                   ELSE VCustom(doc), NoErr)
    ELSE IF doc.j = "null"
    THEN IF t.kind \in {"iface", "ptr", "map", "slice"} THEN DecResult(VNil, NoErr)
         ELSE DecResult(cur, NoErr)
    ELSE IF t.kind = "ptr"
    THEN LET r == JsonDecode(doc, t.elem, IF cur = VNil THEN Zero(t.elem) ELSE cur.p)
         IN  DecResult(VPtr(r.val), r.err)
    ELSE IF IsEmptyInterface(t) THEN DecResult(VGeneric(doc), NoErr)
    ELSE CASE doc.j = "num" /\ t.kind = "int" -> DecResult(VInt(doc.n), NoErr)
      [] doc.j = "str" /\ t.kind = "string" -> DecResult(VStr(doc.s), NoErr)
      [] doc.j = "arr" /\ t.kind \in {"slice", "array"} ->
            decodeElems(doc.a, t, cur, 1, <<>>, NoErr)
      [] doc.j = "obj" /\ t.kind = "struct" -> decodeMembers(doc.o, t, cur, 1)
      [] doc.j = "obj" /\ t.kind = "map" /\ t.key.kind \in KeyKinds ->
            decodeMembers(doc.o, t, IF cur = VNil THEN VMap({}) ELSE cur, 1)
      [] OTHER -> DecResult(cur, TypeError)

\* json.Unmarshal(bs, ptr) where ptr points to a value of type t holding cur.
JsonUnmarshal(bs, t, cur) ==
    IF ~Valid(bs) THEN DecResult(cur, ErrJson("SyntaxError"))
    ELSE JsonDecode(bs, t, cur)

(***************************************************************************)
(* Concrete types and the interfaces they implement.                       *)
(***************************************************************************)
\* reflect.TypeOf(i) of a value a resolver returned.
TConcrete(ty) == [kind |-> "named", name |-> ty]

\* The concrete types with the method set of the registered interfaces.
Implementors == {"Pentagon", "Cow", "Calf"}

\* An assignability test that every type passes.
AssignableToAny(sdType, realType) == TRUE

\* sdType.AssignableTo(realType): identical types, or realType is an
\* interface that sdType implements.
AssignableTo(sdType, realType) ==
    \/ sdType = realType
    \/ IsEmptyInterface(realType)
    \/ /\ realType.kind = "iface"
       /\ sdType.kind = "named"
       /\ sdType.name \in Implementors

\* Whether a map can hold the key: a struct with a slice field cannot be hashed.
Hashable(v) == ~(v.t = "dyn" /\ v.ty = "Cow")

(***************************************************************************)
(* The events of a call, in order, each with the depth of the Unmarshal    *)
(* call it belongs to (0: the caller's, 1: a resolver's own call, ...).    *)
(***************************************************************************)
EvDerive(depth) == [ev |-> "derive", depth |-> depth]
EvParse(depth) == [ev |-> "parse", depth |-> depth]
EvCB(depth, name, bs, val, err) ==
    [ev |-> "cb", depth |-> depth, name |-> name, bs |-> bs, val |-> val, err |-> err]

\* What a call returns: the value now at the destination, the error, the events.
Ret(v, e, log) == [val |-> v, err |-> e, log |-> log]

\* The entries of a map in the order ord (a permutation) ranges over them:
\* the order of a range over a map is not specified.
MapKeys(ps, ord) ==
    LET n == Cardinality(ps)
        some == CHOOSE f \in [1..n -> ps] : \A a, b \in 1..n : f[a] = f[b] => a = b
        idx == SelectSeq(ord, LAMBDA i : i <= n)
    IN  [i \in 1..n |-> some[idx[i]]]

\* The destination the resolver of a Cow decodes into: type X Cow.
CowType(name) == TStruct(<<Field("Name", TString), Field("Ate", TSlice(TIface(name)))>>)
\* What the resolver first decodes the bytes into.
DataType == TStruct(<<Field("Type", TString), Field("Side", TInt)>>)

\* The argument destPtr of Unmarshal: h tells what it is (a pointer, an
\* untyped nil, a value that is no pointer, a nil pointer), type and val
\* are the pointee's.
DestPtr(h, t, v) == [h |-> h, type |-> t, val |-> v]

RECURSIVE stuntdoubleToReal(_, _, _, _, _, _, _, _)
RECURSIVE sdToRealElems(_, _, _, _, _, _, _, _, _, _, _)
RECURSIVE sdToRealFields(_, _, _, _, _, _, _, _, _, _)
RECURSIVE sdToRealEntries(_, _, _, _, _, _, _, _, _)
RECURSIVE Unmarshal(_, _, _, _, _)

(***************************************************************************)
(* A resolver (type CB), after the resolvers of the examples: it decodes   *)
(* a discriminator and answers by it. It stands for every resolver: it may *)
(* return an error, a value of a type that implements the interface, a     *)
(* value of a type that does not, a nil value without an error, and for a  *)
(* value that holds interfaces itself it may call Unmarshal again or leave *)
(* the value to the generic decoder.                                       *)
(***************************************************************************)
\* err = jsonface.GlobalUnmarshal(bs,&x); if err!=nil { return nil,err }; return Cow(x),nil
cbCow(u) ==
    IF u.err # NoErr THEN Ret(VInvalid, u.err, u.log)
    ELSE Ret(VDyn("Cow", u.val), NoErr, u.log)

\* err := json.Unmarshal(bs, &x); if err!=nil { return nil,err }; return x,nil
\* with the generic decoder, for a value that holds interfaces itself.
cbPlain(j) ==
    IF j.err # NoErr THEN Ret(VInvalid, j.err, <<>>)
    ELSE Ret(VDyn("Calf", j.val), NoErr, <<>>)

\* The resolver once it has decoded the discriminator: parsed is what
\* json.Unmarshal(bs,&data) gave.
cbSwitch(parsed, name, bs, cbs, ord, depth) ==
    LET type == parsed.val.f[1].s
        side == parsed.val.f[2].n
    IN  IF parsed.err # NoErr THEN Ret(VInvalid, parsed.err, <<>>)
        ELSE IF side < 0 THEN Ret(VInvalid, ErrUser("Negative Side"), <<>>)
        ELSE CASE type = "Pentagon" -> Ret(VDyn("Pentagon", VStruct(<<VInt(side)>>)), NoErr, <<>>)
          [] type = "Cow" ->
                cbCow(Unmarshal(bs, DestPtr("ptr", CowType(name), Zero(CowType(name))),
                                cbs, ord, depth + 1))
          [] type = "Calf" -> cbPlain(JsonUnmarshal(bs, CowType(name), Zero(CowType(name))))
          [] type = "Alien" -> Ret(VDyn("Alien", VStruct(<<>>)), NoErr, <<>>)
          [] type = "Nil" -> Ret(VInvalid, NoErr, <<>>)
          [] OTHER -> Ret(VInvalid, ErrUser("Unknown Type"), <<>>)

CallCB(name, bs, cbs, ord, depth) ==
    cbSwitch(JsonUnmarshal(bs, DataType, Zero(DataType)), name, bs, cbs, ord, depth)

(***************************************************************************)
(* stuntdoubleToReal: the shadow value sd (of type sdType) into the real   *)
(* value real (of type realType). flag holds the reflect.Value flags of    *)
(* real and sd: "top" (real is not addressable: the value of destPtr       *)
(* itself), "rw" (real is addressable and settable), "ro" (both were       *)
(* reached through a field that is not exported), "fresh" (sd was reached  *)
(* through such a field, real is an element of a slice or map just made).  *)
(***************************************************************************)
\* real.CanSet()
CanSet(flag) == flag \in {"rw", "fresh"}
\* sd was not reached through a field that is not exported: sd.Interface()
\* and real.Set(sd) panic otherwise.
CanInterface(flag) == flag \notin {"ro", "fresh"}
\* The flags of real.Elem() and real.Index(i), sd.Elem() and sd.Index(i).
Child(flag) == IF flag = "top" THEN "rw" ELSE flag
\* The flags of real.Field(i) and sd.Field(i).
FieldFlag(flag, field) == IF field.exported THEN Child(flag) ELSE "ro"
\* The flags of an element of a slice or map made by reflect.MakeSlice,
\* reflect.New, and of the element or key of sd.
Fresh(flag) == IF CanInterface(flag) THEN "rw" ELSE "fresh"

\* A real.Set(sd) that stores nothing.
SetKeepsReal(sd, real, flag) == Ret(real, NoErr, <<>>)

\* real.Set(sd), after the tests of CanSet and AssignableTo.
Set(sd, real, flag) ==
    IF ~CanInterface(flag)
    THEN Ret(real, Panic("reflect.Value.Set using value obtained using unexported field"), <<>>)
    ELSE Ret(sd, NoErr, <<>>)

\* The loop over the elements of an array or slice, after element i gave r.
elemsNext(r, sd, sdType, out, realType, cbs, flag, ord, depth, i, log, msg) ==
    IF r.err # NoErr THEN Ret(VSeq(SetIndex(out, i, r.val)), fmtErr(msg, r.err), log \o r.log)
    ELSE sdToRealElems(sd, sdType, SetIndex(out, i, r.val), realType,
                       cbs, flag, ord, depth, i + 1, log \o r.log, msg)

\* The loop with sd.Index(0) for every element.
sdToRealElemsFirst(sd, sdType, out, realType, cbs, flag, ord, depth, i, log, msg) ==
    IF i > Len(out) THEN Ret(VSeq(out), NoErr, log)
    ELSE elemsNext(stuntdoubleToReal(sd.e[1], sdType.elem, out[i], realType.elem,
                                     cbs, flag, ord, depth),
                   sd, sdType, out, realType, cbs, flag, ord, depth, i, log, msg)

\* The loop over the elements of an array or slice: out holds the real
\* elements, i is the next index.
sdToRealElems(sd, sdType, out, realType, cbs, flag, ord, depth, i, log, msg) ==
    IF i > Len(out) THEN Ret(VSeq(out), NoErr, log)
    ELSE elemsNext(stuntdoubleToReal(sd.e[i], sdType.elem, out[i], realType.elem,
                                     cbs, flag, ord, depth),
                   sd, sdType, out, realType, cbs, flag, ord, depth, i, log, msg)

\* The loop over the fields of a struct, after field i gave r.
fieldsNext(r, sd, sdType, out, realType, cbs, flag, ord, depth, i, log) ==
    IF r.err # NoErr
    THEN Ret(VStruct(SetIndex(out, i, r.val)),
             fmtErr("struct field stuntdoubleToReal error", r.err), log \o r.log)
    ELSE sdToRealFields(sd, sdType, SetIndex(out, i, r.val), realType,
                        cbs, flag, ord, depth, i + 1, log \o r.log)

\* The loop over the fields of a struct.
sdToRealFields(sd, sdType, out, realType, cbs, flag, ord, depth, i, log) ==
    IF i > Len(realType.fields) THEN Ret(VStruct(out), NoErr, log)
    ELSE IF realType.fields[i].name # sdType.fields[i].name
    THEN Ret(VStruct(out), ErrNew("unequal struct field names"), log)
    ELSE fieldsNext(stuntdoubleToReal(sd.f[i], sdType.fields[i].type, out[i],
                                      realType.fields[i].type, cbs,
                                      FieldFlag(flag, realType.fields[i]), ord, depth),
                    sd, sdType, out, realType, cbs, flag, ord, depth, i, log)

\* A loop over the keys of a map that inserts the first pair only.
entriesPutKeepsFirst(k, v, keys, sdType, m, realType, cbs, flag, ord, depth, log) ==
    IF v.err # NoErr
    THEN Ret(VMap(m), fmtErr("map val stuntdoubleToReal error", v.err), log \o k.log \o v.log)
    ELSE sdToRealEntries(Tail(keys), sdType, IF m = {} THEN {Entry(k.val, v.val)} ELSE m,
                         realType, cbs, flag, ord, depth, log \o k.log \o v.log)

\* The loop over the keys of a map, after the key gave k and the value v.
entriesPut(k, v, keys, sdType, m, realType, cbs, flag, ord, depth, log) ==
    IF v.err # NoErr
    THEN Ret(VMap(m), fmtErr("map val stuntdoubleToReal error", v.err), log \o k.log \o v.log)
    ELSE IF ~Hashable(k.val)
    THEN Ret(VMap(m), Panic("hash of unhashable type"), log \o k.log \o v.log)
    ELSE sdToRealEntries(Tail(keys), sdType, SetMapIndex(m, k.val, v.val), realType,
                         cbs, flag, ord, depth, log \o k.log \o v.log)

\* The loop over the keys of a map, after the key gave k.
entriesVal(k, keys, sdType, m, realType, cbs, flag, ord, depth, log) ==
    IF k.err # NoErr
    THEN Ret(VMap(m), fmtErr("map key stuntdoubleToReal error", k.err), log \o k.log)
    ELSE entriesPut(k, stuntdoubleToReal(Head(keys).v, sdType.elem, Zero(realType.elem),
                                         realType.elem, cbs, flag, ord, depth),
                    keys, sdType, m, realType, cbs, flag, ord, depth, log)

\* The loop over the keys of a map: keys are the shadow entries left, m the
\* entries of the new real map, flag the flags of a key and of a value.
sdToRealEntries(keys, sdType, m, realType, cbs, flag, ord, depth, log) ==
    IF keys = <<>> THEN Ret(VMap(m), NoErr, log)
    ELSE entriesVal(stuntdoubleToReal(Head(keys).k, sdType.key, Zero(realType.key),
                                      realType.key, cbs, flag, ord, depth),
                    keys, sdType, m, realType, cbs, flag, ord, depth, log)

\* return stuntdoubleToReal(sd.Elem(),real.Elem(),cbs): real points to what r holds.
ptrRet(r) == Ret(VPtr(r.val), r.err, r.log)

\* A store of the new slice or map as far as its loop came.
setNewStoresPartial(r, real, flag, msg) ==
    IF ~CanSet(flag) THEN Ret(real, IF r.err # NoErr THEN r.err ELSE ErrNew(msg), r.log)
    ELSE r

\* if !real.CanSet() { return errors.New(msg) }; real.Set(s): r holds the
\* new slice or map, or the error of its loop.
setNew(r, real, flag, msg) ==
    IF r.err # NoErr THEN Ret(real, r.err, r.log)
    ELSE IF ~CanSet(flag) THEN Ret(real, ErrNew(msg), r.log)
    ELSE r

\* The part of stuntdoubleToReal after the resolver's call: sd and sdType
\* are the resolver's result where it was called.
sdToRealAssign(sd, sdType, real, realType, cbs, flag, ord, depth) ==
    IF PtrImplementsUnmarshaler(sdType)
    THEN IF ~CanSet(flag) THEN Ret(real, ErrNew("cannot set 01"), <<>>)
         ELSE IF ~AssignableTo(sdType, realType) THEN Ret(real, ErrNew("cb result not assignable"), <<>>)
         ELSE Set(sd, real, flag)
    ELSE CASE realType.kind \in PrimitiveKinds ->
            IF ~CanSet(flag) THEN Ret(real, ErrNew("cannot set 02"), <<>>)
            ELSE IF ~AssignableTo(sdType, realType) THEN Ret(real, ErrNew("cb result not assignable"), <<>>)
            ELSE Set(sd, real, flag)
      [] realType.kind = "ptr" ->
            IF sdType.kind # "ptr" THEN Ret(real, ErrNew("Incompatible stuntdouble and real kinds"), <<>>)
            ELSE IF sd = VNil
            THEN IF real = VNil THEN Ret(real, NoErr, <<>>)
                 ELSE IF ~CanSet(flag) THEN Ret(real, ErrNew("cannot set 03"), <<>>)
                 \* real.Set(sd): reflect panics when sd's type is not real's.
                 ELSE IF CanInterface(flag) /\ ~AssignableTo(sdType, realType)
                 THEN Ret(real, Panic("reflect.Set: value is not assignable"), <<>>)
                 ELSE Set(VNil, real, flag)
            ELSE IF real = VNil /\ ~CanSet(flag) THEN Ret(real, ErrNew("cannot set 04"), <<>>)
            ELSE ptrRet(stuntdoubleToReal(sd.p, sdType.elem,
                                          IF real = VNil THEN Zero(realType.elem) ELSE real.p,
                                          realType.elem, cbs, Child(flag), ord, depth))
      [] realType.kind = "iface" ->
            IF ~CanSet(flag) THEN Ret(real, ErrNew("cannot set 05"), <<>>)
            ELSE IF ~AssignableTo(sdType, realType) THEN Ret(real, ErrNew("cb result not assignable"), <<>>)
            ELSE Set(sd, real, flag)
      [] realType.kind = "array" ->
            IF sdType.kind \notin {"array", "slice"}
            THEN Ret(real, ErrNew("Incompatible stuntdouble and real kinds"), <<>>)
            ELSE IF (IF sd = VNil THEN 0 ELSE Len(sd.e)) # realType.len
            THEN Ret(real, ErrNew("unequal array lengths"), <<>>)
            ELSE sdToRealElems(sd, sdType, real.e, realType, cbs, Child(flag), ord, depth, 1, <<>>,
                               "array element stuntdoubleToReal error")
      [] realType.kind = "slice" ->
            IF sdType.kind \notin {"array", "slice"}
            THEN Ret(real, ErrNew("Incompatible stuntdouble and real kinds"), <<>>)
            ELSE setNew(sdToRealElems(sd, sdType,
                                      [i \in 1..(IF sd = VNil THEN 0 ELSE Len(sd.e)) |->
                                          Zero(realType.elem)],
                                      realType, cbs, Fresh(flag), ord, depth, 1, <<>>,
                                      "slice element stuntdoubleToReal error"),
                        real, flag, "cannot set 06")
      [] realType.kind = "struct" ->
            IF sdType.kind # "struct"
            THEN Ret(real, ErrNew("Incompatible stuntdouble and real kinds"), <<>>)
            ELSE IF Len(sdType.fields) # Len(realType.fields)
            THEN Ret(real, ErrNew("unequal struct NumFields"), <<>>)
            ELSE sdToRealFields(sd, sdType, real.f, realType, cbs, flag, ord, depth, 1, <<>>)
      [] realType.kind = "map" ->
            IF sdType.kind # "map"
            THEN Ret(real, ErrNew("Incompatible stuntdouble and real kinds"), <<>>)
            ELSE setNew(sdToRealEntries(IF sd = VNil THEN <<>> ELSE MapKeys(sd.m, ord),
                                        sdType, {}, realType, cbs, Fresh(flag), ord, depth, <<>>),
                        real, flag, "cannot set 07")
      [] realType.kind = "chan" ->
            Ret(real, ErrNew("Chan unmarshal not yet implemented"), <<>>)
      [] OTHER -> Ret(real, ErrNew("Unsupported Kind"), <<>>)

\* The events of the resolver's call, then those of r.
withLog(r, events) == Ret(r.val, r.err, events \o r.log)

\* i,e:=cb(bs); if e!=nil { return cbErr{e} }; sd=reflect.ValueOf(i);
\* sdType=sd.Type(): c is what the resolver returned for the bytes b.
cbReturned(c, name, b, real, realType, cbs, flag, ord, depth) ==
    IF c.err # NoErr
    THEN Ret(real, IF c.err.kind = "panic" THEN c.err ELSE cbErr(c.err),
             Append(c.log, EvCB(depth, name, b, c.val, c.err)))
    ELSE IF c.val = VInvalid
    THEN Ret(real, Panic("reflect: call of reflect.Value.Type on zero Value"),
             Append(c.log, EvCB(depth, name, b, c.val, c.err)))
    ELSE withLog(sdToRealAssign(c.val, TConcrete(c.val.ty), real, realType,
                                cbs, flag, ord, depth),
                 Append(c.log, EvCB(depth, name, b, c.val, c.err)))

\* A stuntdoubleToReal whose lookup formats the name in another way than the
\* registry's keys, and so finds no resolver.
stuntdoubleToRealOtherName(sd, sdType, real, realType, cbs, flag, ord, depth) ==
    sdToRealAssign(sd, sdType, real, realType, cbs, flag, ord, depth)

stuntdoubleToReal(sd, sdType, real, realType, cbs, flag, ord, depth) ==
    IF sdType = STUNT_TYPE /\ Has(cbs, TypeString(realType))
    THEN IF ~CanInterface(flag)
         THEN Ret(real, Panic("reflect.Value.Interface: cannot return value obtained from unexported field or method"), <<>>)
         ELSE cbReturned(CallCB(TypeString(realType), sd.b, cbs, ord, depth),
                         TypeString(realType), sd.b, real, realType, cbs, flag, ord, depth)
    ELSE sdToRealAssign(sd, sdType, real, realType, cbs, flag, ord, depth)

(***************************************************************************)
(* Unmarshal(bs, destPtr, cbs).                                            *)
(***************************************************************************)
\* e=stuntdoubleToReal(sdPtrV,destPtrV,cbs); if e!=nil { return unwrapCBErr(fmtErr(...)) }
unmarshalReconciled(r, depth) ==
    Ret(r.val.p, unwrapCBErr(fmtErr("stuntdoubleToReal error", r.err)),
        <<EvDerive(depth), EvParse(depth)>> \o r.log)

\* An Unmarshal that reconciles what the decoder made before it failed.
unmarshalParsedIgnoresErr(j, d, destPtr, cbs, ord, depth) ==
    unmarshalReconciled(stuntdoubleToReal(VPtr(j.val), TPtr(d.type),
                                          VPtr(destPtr.val), TPtr(destPtr.type),
                                          cbs, "top", ord, depth),
                        depth)

\* e=json.Unmarshal(bs,sdPtrV.Interface()); if e!=nil { return fmt.Errorf(...) }
unmarshalParsed(j, d, destPtr, cbs, ord, depth) ==
    IF j.err # NoErr
    THEN Ret(destPtr.val, ErrFmt("json.Unmarshal error", j.err),
             <<EvDerive(depth), EvParse(depth)>>)
    ELSE unmarshalReconciled(stuntdoubleToReal(VPtr(j.val), TPtr(d.type),
                                               VPtr(destPtr.val), TPtr(destPtr.type),
                                               cbs, "top", ord, depth),
                             depth)

\* if !hasStunt { return json.Unmarshal(bs,destPtr) }
unmarshalFast(j, depth) == Ret(j.val, j.err, <<EvDerive(depth), EvParse(depth)>>)

\* Unmarshal without the test of the Deriver's error.
unmarshalDerivedIgnoresErr(d, bs, destPtr, cbs, ord, depth) ==
    IF ~d.hasStunt
    THEN unmarshalFast(JsonUnmarshal(bs, destPtr.type, destPtr.val), depth)
    ELSE unmarshalParsed(JsonUnmarshal(bs, d.type, Zero(d.type)), d, destPtr, cbs, ord, depth)
\* sdType,hasStunt,e:=stuntdoubleType(destType,cbs); if e!=nil { return fmt.Errorf(...) }
unmarshalDerived(d, bs, destPtr, cbs, ord, depth) ==
    IF d.err # NoErr
    THEN Ret(destPtr.val, Errorf("stuntdoubleType error", d.err), <<EvDerive(depth)>>)
    ELSE IF ~d.hasStunt
    THEN unmarshalFast(JsonUnmarshal(bs, destPtr.type, destPtr.val), depth)
    ELSE unmarshalParsed(JsonUnmarshal(bs, d.type, Zero(d.type)), d, destPtr, cbs, ord, depth)

\* Unmarshal without the tests of destPtr.
UnmarshalUnchecked(bs, destPtr, cbs, ord, depth) ==
    unmarshalDerived(stuntdoubleType(destPtr.type, cbs), bs, destPtr, cbs, ord, depth)

\* func Unmarshal(bs []byte, destPtr interface{}, cbs CBMap) error
Unmarshal(bs, destPtr, cbs, ord, depth) ==
    IF destPtr.h = "untypedNil" THEN Ret(destPtr.val, ErrNew("invalid destPtr"), <<>>)
    ELSE IF destPtr.h = "nonPtr" THEN Ret(destPtr.val, ErrNew("destPtr is not a pointer"), <<>>)
    ELSE IF destPtr.h = "nilPtr" THEN Ret(destPtr.val, ErrNew("nil destPtr"), <<>>)
    ELSE unmarshalDerived(stuntdoubleType(destPtr.type, cbs), bs, destPtr, cbs, ord, depth)

(***************************************************************************)
(* json.Marshal, with the MarshalJSON methods of the concrete types (they  *)
(* emit the discriminator "Type" the resolver reads).                      *)
(***************************************************************************)
\* The entries of a map sorted by key, as the encoder writes them; the
\* keys are numerals.
SortedEntries(ps) ==
    LET rank(e) == CHOOSE i \in 0..(MaxLen + 1) : ToString(i) = e.k.s
    IN  CHOOSE f \in [1..Cardinality(ps) -> ps] :
            \A a, b \in 1..Cardinality(ps) : a < b => rank(f[a]) < rank(f[b])

RECURSIVE Marshal(_, _)
Marshal(v, t) ==
    CASE v.t = "nil" -> JNull
      [] v.t = "int" -> JNum(v.n)
      [] v.t = "str" -> JStr(v.s)
      [] v.t = "ptr" -> Marshal(v.p, t.elem)
      [] v.t = "seq" -> JArr([i \in 1..Len(v.e) |-> Marshal(v.e[i], t.elem)])
      [] v.t = "struct" ->
            \* The encoder leaves out the fields that are not exported.
            LET idx == SelectSeq([i \in 1..Len(v.f) |-> i], LAMBDA i : t.fields[i].exported)
            IN  JObj([n \in 1..Len(idx) |->
                        Member(JText(t.fields[idx[n]].name),
                               Marshal(v.f[idx[n]], t.fields[idx[n]].type))])
      [] v.t = "map" ->
            LET sorted == SortedEntries(v.m)
            IN  JObj([i \in 1..Len(sorted) |->
                        Member(JText(sorted[i].k.s), Marshal(sorted[i].v, t.elem))])
      [] v.t = "dyn" /\ v.ty = "Pentagon" ->
            JObj(<<Member(JText("Type"), JStr("Pentagon")), Member(JText("Side"), JNum(v.d.f[1].n))>>)
      [] v.t = "dyn" /\ v.ty = "Cow" ->
            JObj(<<Member(JText("Type"), JStr("Cow")),
                   Member(JText("Name"), JStr(v.d.f[1].s)),
                   Member(JText("Ate"), Marshal(v.d.f[2], TSlice(t)))>>)
      [] OTHER -> JNull

(***************************************************************************)
(* The inputs: destination types, documents and values.                    *)
(***************************************************************************)
\* The interface with a resolver in the registry, and one without; the
\* interface with UnmarshalJSON among its methods has a resolver too.
TheCBMap == [n \in {NameI, NameU} |-> "cb1"]

\* What may lie between the destination and a leaf type: "beside" is a
\* struct that holds the leaf type next to a field of the registered
\* interface, "privfield" one that holds it in a field that is not exported.
Wrappers == {"ptr", "array", "slice", "field", "privfield", "beside", "mapkey", "mapval"}
\* The wrappers that hold several elements.
Wide == {"array", "slice", "mapkey", "mapval"}

RECURSIVE SeqsUpTo(_, _)
\* The sequences over S of length 0..n.
SeqsUpTo(S, n) ==
    IF n = 0 THEN {<<>>}
    ELSE LET shorter == SeqsUpTo(S, n - 1)
         IN  shorter \cup {Append(q, x) : q \in {r \in shorter : Len(r) = n - 1}, x \in S}

Paths == SeqsUpTo(Wrappers, MaxDepth)

Wrap(w, t) ==
    CASE w = "ptr" -> TPtr(t)
      [] w = "array" -> TArray(MaxLen, t)
      [] w = "slice" -> TSlice(t)
      [] w = "field" -> TStruct(<<Field("F", t), Field("S", TString)>>)
      [] w = "privfield" -> TStruct(<<PrivField("f", t), Field("S", TString)>>)
      [] w = "beside" -> TStruct(<<Field("F", t), Field("G", TIface(NameI))>>)
      [] w = "mapkey" -> TMap(t, TString)
      [] w = "mapval" -> TMap(TString, t)

RECURSIVE BuildType(_, _)
\* The type with the wrappers of path (the outermost first) around leaf.
BuildType(path, leaf) ==
    IF path = <<>> THEN leaf ELSE Wrap(Head(path), BuildType(Tail(path), leaf))

\* The documents of concrete values, with the discriminator "Type".
TokPent(n) == JObj(<<Member(JText("Type"), JStr("Pentagon")), Member(JText("Side"), JNum(n))>>)
\* The same value with its members in the other order.
TokPentSwapped ==
    JObj(<<Member(JText("Side"), JNum(5)), Member(JText("Type"), JStr("Pentagon"))>>)
TokAlien == JObj(<<Member(JText("Type"), JStr("Alien"))>>)
TokNil == JObj(<<Member(JText("Type"), JStr("Nil"))>>)
TokCow(ate) ==
    JObj(<<Member(JText("Type"), JStr("Cow")), Member(JText("Name"), JStr("Bessie")),
           Member(JText("Ate"), ate)>>)
TokCalf(ate) ==
    JObj(<<Member(JText("Type"), JStr("Calf")), Member(JText("Name"), JStr("Bessie")),
           Member(JText("Ate"), ate)>>)
\* The values the resolver makes of them.
ValPent == VDyn("Pentagon", VStruct(<<VInt(5)>>))
ValCow(ate) == VDyn("Cow", VStruct(<<VStr("Bessie"), ate>>))

RECURSIVE BuildDoc(_, _)
\* A document for BuildType(path, leaf): the first wide wrapper holds one
\* element per token, an absent token is a null pointer or an absent field.
BuildDoc(path, toks) ==
    IF path = <<>> THEN toks[1]
    ELSE LET w == Head(path)
             sub(q) == BuildDoc(Tail(path), q)
         IN  CASE w = "ptr" -> IF toks = <<>> THEN JNull ELSE sub(toks)
               [] w = "field" ->
                    IF toks = <<>> THEN JObj(<<Member(JText("S"), JStr("hi"))>>)
                    ELSE JObj(<<Member(JText("F"), sub(toks)), Member(JText("S"), JStr("hi"))>>)
               [] w = "privfield" ->
                    IF toks = <<>> THEN JObj(<<Member(JText("S"), JStr("hi"))>>)
                    ELSE JObj(<<Member(JText("f"), sub(toks)), Member(JText("S"), JStr("hi"))>>)
               [] w = "beside" ->
                    IF toks = <<>> THEN JObj(<<Member(JText("G"), TokPent(5))>>)
                    ELSE JObj(<<Member(JText("F"), sub(toks)), Member(JText("G"), TokPent(5))>>)
               [] w \in {"array", "slice"} -> JArr([i \in 1..Len(toks) |-> sub(<<toks[i]>>)])
               [] w = "mapval" ->
                    JObj([i \in 1..Len(toks) |-> Member(JText(ToString(i)), sub(<<toks[i]>>))])
               [] w = "mapkey" ->
                    JObj([i \in 1..Len(toks) |-> Member(sub(<<toks[i]>>), JStr("hi"))])

RECURSIVE BuildValue(_, _, _)
\* A value of BuildType(path, leaf) that holds the values vals likewise.
BuildValue(path, leaf, vals) ==
    IF path = <<>> THEN vals[1]
    ELSE LET w == Head(path)
             et == BuildType(Tail(path), leaf)
             sub(q) == BuildValue(Tail(path), leaf, q)
         IN  CASE w = "ptr" -> IF vals = <<>> THEN VNil ELSE VPtr(sub(vals))
               [] w \in {"field", "privfield"} ->
                    VStruct(<<IF vals = <<>> THEN Zero(et) ELSE sub(vals), VStr("hi")>>)
               [] w = "beside" ->
                    VStruct(<<IF vals = <<>> THEN Zero(et) ELSE sub(vals), ValPent>>)
               [] w = "array" ->
                    VSeq([i \in 1..MaxLen |-> IF i <= Len(vals) THEN sub(<<vals[i]>>) ELSE Zero(et)])
               [] w = "slice" -> VSeq([i \in 1..Len(vals) |-> sub(<<vals[i]>>)])
               [] w = "mapval" ->
                    VMap({Entry(VStr(ToString(i)), sub(<<vals[i]>>)) : i \in 1..Len(vals)})
               [] w = "mapkey" ->
                    VMap({Entry(sub(<<vals[i]>>), VStr("hi")) : i \in 1..Len(vals)})

\* Whether toks fit path: only a wide wrapper takes several tokens, and a
\* bare leaf takes exactly one.
Fits(path, toks) ==
    /\ path = <<>> => Len(toks) = 1
    /\ (\A i \in 1..Len(path) : path[i] \notin Wide) => Len(toks) <= 1

RECURSIVE HasMap(_)
\* Whether a map lies in t, so that the order of ranging over it matters.
HasMap(t) ==
    CASE t.kind = "map" -> TRUE
      [] t.kind \in {"ptr", "array", "slice"} -> HasMap(t.elem)
      [] t.kind = "struct" -> \E i \in 1..Len(t.fields) : HasMap(t.fields[i].type)
      [] OTHER -> FALSE

\* The tokens put where the leaf type is.
Tokens(leaf) ==
    CASE leaf = TIface(NameI) ->
            {TokPent(5), TokPent(-1), TokAlien, TokNil, TokCow(JArr(<<TokPent(-1)>>)),
             TokCalf(JArr(<<JNull>>)), TokPentSwapped}
      [] leaf \in {TIface(NameJ), TIface(NameFood), TIface(NameU)} -> {TokPent(5), JNull}
      [] leaf = TInt -> {JNum(1), JStr("x")}
      [] leaf = TCustom(TChan) -> {JNum(1), JNull}
      [] leaf = TCustom(TIface(NameI)) -> {TokPent(-1), JNull}
      [] OTHER -> {JNull}

\* The concrete values put where the interface is.
Values == {ValPent, ValCow(VSeq(<<ValPent>>)), ValCow(VNil)}

Leaves ==
    {TIface(NameI), TIface(NameJ), TIface(NameFood), TIface(NameU), TInt, TChan, TCustom(TChan),
     TCustom(TIface(NameI))}

\* The orders a map may be ranged over.
Orders == {p \in [1..MaxLen -> 1..MaxLen] : \A a, b \in 1..MaxLen : p[a] = p[b] => a = b}
\* The orders that matter for a destination of type t.
OrdersFor(t) == IF HasMap(t) THEN Orders ELSE {[i \in 1..MaxLen |-> i]}
\* Several tokens, or values, at once are drawn from these.
Several(toks) ==
    Len(toks) > 1 =>
        \A i \in 1..Len(toks) :
            toks[i] \in {TokPent(5), TokPent(-1), TokPentSwapped, JNum(1), JNull, ValPent, ValCow(VNil)}

(***************************************************************************)
(* The state: one caller's encode and decode of one destination, and the   *)
(* threads that use the global registry.                                   *)
(***************************************************************************)
VARIABLES
    pc,         \* "encode": the caller encodes prior first; "ready"; "done"
    bs,         \* the input bytes
    destPtr,    \* the destination handle and the value it points to
    prior,      \* the value of the destination before the call
    cbs,        \* the caller's registry
    ret,        \* the error Unmarshal returned
    log,        \* the events of the call
    globalCBs,  \* the global registry m and the state of its sync.RWMutex
    th,         \* the threads: where each is in its call, and the call's data
    stack       \* the calls of stuntdoubleType in progress, the innermost last

dataVars == <<pc, bs, destPtr, prior, cbs, ret, log, structOf, stack>>
vars == <<pc, bs, destPtr, prior, cbs, ret, log, structOf, globalCBs, th, stack>>

Threads == 1..NumThreads
\* The resolvers a thread may register.
CBs == {"cb1", "cb2"}
Names == {NameI, NameJ}

\* var globalCBs: readers is the number of read locks held, writer the
\* thread that holds the write side of the lock (waiting for the readers to
\* leave, or inside), 0 for none.
GlobalCBs(m, readers, writer) == [m |-> m, readers |-> readers, writer |-> writer]
\* A thread outside every call.
Idle == [pc |-> "idle", name |-> "", cb |-> "", bs |-> JNull, ncb |-> 0]

\* A decode of a document into a zero destination.
InitDecode ==
    \E path \in Paths, leaf \in Leaves :
      \E toks \in SeqsUpTo(Tokens(leaf), MaxLen) :
        /\ Fits(path, toks) /\ Several(toks)
        /\ (\E i \in 1..Len(toks) : toks[i] = TokPentSwapped) =>
              (\E i \in 1..Len(path) : path[i] = "mapkey")
        /\ bs \in {BuildDoc(path, toks)} \cup (IF Len(toks) <= 1 THEN {JBad} ELSE {})
        /\ \E h \in {"ptr", "untypedNil", "nonPtr", "nilPtr"} :
              /\ h # "ptr" => Len(toks) <= 1 /\ leaf \in {TIface(NameI), TChan}
              /\ destPtr = DestPtr(h, BuildType(path, leaf), Zero(BuildType(path, leaf)))
        /\ cbs \in {TheCBMap} \cup
                  (IF Len(toks) <= 1 /\ leaf \in {TIface(NameI), TChan} /\ destPtr.h = "ptr"
                   THEN {EmptyCBMap} ELSE {})
        /\ prior = destPtr.val
        /\ structOf \in (IF \E i \in 1..Len(path) : path[i] = "privfield"
                         THEN StructOfOutcomes ELSE {"panics"})
        /\ pc = "ready"

\* A value that is encoded and then decoded into the variable that holds it.
InitRoundTrip ==
    \E path \in Paths :
      \E vals \in SeqsUpTo(Values, MaxLen) :
        /\ Fits(path, vals) /\ Several(vals)
        /\ \A i \in 1..Len(path) : path[i] \notin {"mapkey", "privfield"}
        /\ structOf = "panics"
        /\ bs = JEmpty
        /\ destPtr = DestPtr("ptr", BuildType(path, TIface(NameI)),
                             BuildValue(path, TIface(NameI), vals))
        /\ cbs = TheCBMap
        /\ prior = destPtr.val
        /\ pc = "encode"

\* What a destination holds before a call that overwrites it.
PriorValues(leaf) == IF leaf = TInt THEN {VInt(7)} ELSE {ValPent}

\* A decode of a document into a destination whose pointers point to values.
InitOverwrite ==
    \E path \in Paths, leaf \in {TIface(NameI), TInt} :
      \E vals \in SeqsUpTo(PriorValues(leaf), MaxLen), toks \in SeqsUpTo(Tokens(leaf), MaxLen) :
        /\ \E i \in 1..Len(path) : path[i] = "ptr"
        /\ \A i \in 1..Len(path) : path[i] \notin {"mapkey", "privfield"}
        /\ vals # <<>> /\ Fits(path, vals)
        /\ Fits(path, toks)
        /\ \A i \in 1..Len(toks) : toks[i] \in {TokPent(5), JNum(1), JStr("x"), JNull}
        /\ structOf = "panics"
        /\ bs \in {BuildDoc(path, toks)} \cup (IF Len(toks) <= 1 THEN {JBad} ELSE {})
        /\ destPtr = DestPtr("ptr", BuildType(path, leaf), BuildValue(path, leaf, vals))
        /\ cbs = TheCBMap
        /\ prior = destPtr.val
        /\ pc = "ready"

\* The caller has registered in the global registry what its own registry holds.
Init ==
    /\ InitDecode \/ InitRoundTrip \/ InitOverwrite
    /\ ret = NoErr
    /\ log = <<>>
    /\ globalCBs = GlobalCBs(cbs, 0, 0)
    /\ th = [t \in Threads |-> Idle]
    /\ stack = <<>>

\* bs, err := json.Marshal(x)
MarshalCall ==
    /\ pc = "encode"
    /\ bs' = Marshal(destPtr.val, destPtr.type)
    /\ pc' = "ready"
    /\ UNCHANGED <<destPtr, prior, cbs, ret, log, structOf, globalCBs, th, stack>>

\* The call returns r: the destination holds what the call stored.
Returns(r) ==
    /\ destPtr' = [destPtr EXCEPT !.val = r.val]
    /\ ret' = r.err
    /\ log' = r.log

\* err := jsonface.Unmarshal(bs, &x, cbs)
UnmarshalCall ==
    /\ pc = "ready"
    /\ \E ord \in OrdersFor(destPtr.type) : Returns(Unmarshal(bs, destPtr, cbs, ord, 0))
    /\ pc' = "done"
    /\ UNCHANGED <<bs, prior, cbs, structOf, globalCBs, th, stack>>

\* err := jsonface.GlobalUnmarshal(bs, &x): the read lock is taken and, by
\* the deferred RUnlock, released when Unmarshal has returned.
GlobalUnmarshalCall ==
    /\ pc = "ready"
    /\ globalCBs.writer = 0
    /\ \E ord \in OrdersFor(destPtr.type) : Returns(Unmarshal(bs, destPtr, globalCBs.m, ord, 0))
    /\ pc' = "done"
    /\ UNCHANGED <<bs, prior, cbs, structOf, globalCBs, th, stack>>

Next == MarshalCall \/ UnmarshalCall \/ GlobalUnmarshalCall

Spec == Init /\ [][Next]_vars

(***************************************************************************)
(* The threads: AddGlobalCB, ResetGlobalCBs and GlobalUnmarshal step by    *)
(* step under the registry's sync.RWMutex. A writer that waits blocks the  *)
(* readers that come after it.                                             *)
(***************************************************************************)
\* What each thread decodes: a value, and one whose resolver calls
\* GlobalUnmarshal again.
ThreadInputs == {TokPent(5), TokCow(JArr(<<TokPent(5)>>))}
ThreadDest == DestPtr("ptr", TIface(NameI), VNil)

\* The pcs at which a thread is inside GlobalUnmarshal, holding the read lock.
ReaderPcs == {"gu_in", "gu_cb", "gu_in2", "gu_out"}
\* The pcs at which a thread is inside the write lock.
WriterPcs == {"add_in", "add_ret", "add_panic", "reset_in", "reset_ret"}

LockInit ==
    /\ pc = "done" /\ bs = JNull /\ destPtr = DestPtr("ptr", TInt, VInt(0))
    /\ prior = VInt(0) /\ cbs = EmptyCBMap /\ ret = NoErr /\ log = <<>>
    /\ structOf = "panics"
    /\ globalCBs = GlobalCBs(EmptyCBMap, 0, 0)
    /\ th = [t \in Threads |-> Idle]
    /\ stack = <<>>

\* globalCBs.Lock(), first half: the thread takes the write side; the
\* readers that come later wait.
WLock(t, to, name, cb) ==
    /\ th[t].pc = "idle"
    /\ globalCBs.writer = 0
    /\ globalCBs' = [globalCBs EXCEPT !.writer = t]
    /\ th' = [th EXCEPT ![t] = [Idle EXCEPT !.pc = to, !.name = name, !.cb = cb]]
    /\ UNCHANGED dataVars

\* A Lock() that does not wait for the readers to leave.
WEnterNoWait(t, from, to) ==
    /\ th[t].pc = from
    /\ th' = [th EXCEPT ![t].pc = to]
    /\ UNCHANGED <<dataVars, globalCBs>>
\* globalCBs.Lock(), second half: the readers have left.
WEnter(t, from, to) ==
    /\ th[t].pc = from
    /\ globalCBs.readers = 0
    /\ th' = [th EXCEPT ![t].pc = to]
    /\ UNCHANGED <<dataVars, globalCBs>>

\* The deferred globalCBs.Unlock().
WUnlock(t, from, to) ==
    /\ th[t].pc = from
    /\ globalCBs' = [globalCBs EXCEPT !.writer = 0]
    /\ th' = [th EXCEPT ![t].pc = to]
    /\ UNCHANGED dataVars

AddLock(t) ==
    \E name \in Names, cb \in CBs :
        /\ name = NameJ => cb = "cb1"
        /\ WLock(t, "add_wait", name, cb)
AddEnter(t) == WEnter(t, "add_wait", "add_in")
\* An AddGlobalCB that stores the resolver whether or not the name is there.
AddBodyReplaces(t) ==
    /\ th[t].pc = "add_in"
    /\ globalCBs' = [globalCBs EXCEPT !.m =
           [n \in DOMAIN globalCBs.m \cup {th[t].name} |->
               IF n = th[t].name THEN th[t].cb ELSE globalCBs.m[n]]]
    /\ th' = [th EXCEPT ![t].pc = "add_ret"]
    /\ UNCHANGED dataVars
\* if _,has:=globalCBs.m[name]; has { panic(...) }; globalCBs.m[name]=cb
AddBody(t) ==
    /\ th[t].pc = "add_in"
    /\ IF Has(globalCBs.m, th[t].name)
       THEN /\ th' = [th EXCEPT ![t].pc = "add_panic"]
            /\ UNCHANGED globalCBs
       ELSE /\ globalCBs' = [globalCBs EXCEPT !.m =
                   [n \in DOMAIN globalCBs.m \cup {th[t].name} |->
                       IF n = th[t].name THEN th[t].cb ELSE globalCBs.m[n]]]
            /\ th' = [th EXCEPT ![t].pc = "add_ret"]
    /\ UNCHANGED dataVars
AddReturn(t) == WUnlock(t, "add_ret", "idle")
\* A panic that leaves AddGlobalCB with the lock held.
AddPanicKeepsLock(t) ==
    /\ th[t].pc = "add_panic"
    /\ th' = [th EXCEPT ![t].pc = "panicked"]
    /\ UNCHANGED <<dataVars, globalCBs>>
\* The panic unwinds through the deferred Unlock and out of AddGlobalCB.
AddPanic(t) == WUnlock(t, "add_panic", "panicked")

ResetLock(t) == WLock(t, "reset_wait", "", "")
ResetEnter(t) == WEnter(t, "reset_wait", "reset_in")
\* A ResetGlobalCBs that deletes nothing.
ResetBodyKeepsAll(t) ==
    /\ th[t].pc = "reset_in"
    /\ th' = [th EXCEPT ![t].pc = "reset_ret"]
    /\ UNCHANGED <<dataVars, globalCBs>>
\* for k:=range globalCBs.m { delete(globalCBs.m,k) }
ResetBody(t) ==
    /\ th[t].pc = "reset_in"
    /\ globalCBs' = [globalCBs EXCEPT !.m = EmptyCBMap]
    /\ th' = [th EXCEPT ![t].pc = "reset_ret"]
    /\ UNCHANGED dataVars
ResetReturn(t) == WUnlock(t, "reset_ret", "idle")

\* globalCBs.RLock(): not while a writer waits or is inside.
RLock(t, from, to, input) ==
    /\ th[t].pc = from
    /\ globalCBs.writer = 0
    /\ globalCBs' = [globalCBs EXCEPT !.readers = @ + 1]
    /\ th' = [th EXCEPT ![t] = [Idle EXCEPT !.pc = to, !.bs = input]]
    /\ UNCHANGED dataVars

\* globalCBs.RUnlock(), when the call that took the lock has made events.
RUnlock(t, from, to, events) ==
    /\ th[t].pc \in from
    /\ globalCBs' = [globalCBs EXCEPT !.readers = @ - 1]
    /\ th' = [th EXCEPT ![t] = [Idle EXCEPT !.pc = to, !.bs = IF to = "idle" THEN JNull ELSE th[t].bs,
                                            !.ncb = Cardinality({i \in DOMAIN events : events[i].ev = "cb"})]]
    /\ UNCHANGED dataVars

GULock(t) == \E input \in ThreadInputs : RLock(t, "idle", "gu_in", input)
\* Unmarshal reaches the registered slot and calls its resolver.
GUResolve(t) ==
    /\ th[t].pc = "gu_in"
    /\ Has(globalCBs.m, NameI)
    /\ th' = [th EXCEPT ![t].pc = "gu_cb"]
    /\ UNCHANGED <<dataVars, globalCBs>>
\* The resolver calls GlobalUnmarshal for the value that holds interfaces.
GUReenter(t) ==
    /\ th[t].bs # TokPent(5)
    /\ RLock(t, "gu_cb", "gu_in2", th[t].bs)
\* The resolver's GlobalUnmarshal returns.
GUReexit(t) ==
    RUnlock(t, {"gu_in2"}, "gu_out", <<>>)
\* The resolver returns without a call of GlobalUnmarshal.
GUResolved(t) ==
    /\ th[t].pc = "gu_cb"
    /\ th[t].bs = TokPent(5)
    /\ th' = [th EXCEPT ![t].pc = "gu_out"]
    /\ UNCHANGED <<dataVars, globalCBs>>
\* Unmarshal returns, then the deferred RUnlock runs.
GUReturn(t) ==
    /\ th[t].pc = "gu_in" => ~Has(globalCBs.m, NameI)
    /\ RUnlock(t, {"gu_in", "gu_out"}, "idle",
               Unmarshal(th[t].bs, ThreadDest, globalCBs.m, [i \in 1..MaxLen |-> i], 0).log)

LockNext ==
    \E t \in Threads :
        \/ AddLock(t) \/ AddEnter(t) \/ AddBody(t) \/ AddReturn(t) \/ AddPanic(t)
        \/ ResetLock(t) \/ ResetEnter(t) \/ ResetBody(t) \/ ResetReturn(t)
        \/ GULock(t) \/ GUResolve(t) \/ GUReenter(t) \/ GUReexit(t) \/ GUResolved(t)
        \/ GUReturn(t)

LockSpec == LockInit /\ [][LockNext]_vars

\* The step GUReturn by its unlocking alone: Unmarshal returns after some
\* number of resolver calls and the deferred RUnlock runs.
GUUnlocks(t) ==
    /\ th[t].pc = "gu_in" => ~Has(globalCBs.m, NameI)
    /\ \E n \in 0..(MaxLen + 1) :
          RUnlock(t, {"gu_in", "gu_out"}, "idle", [i \in 1..n |-> EvCB(0, NameI, JNull, VNil, NoErr)])

\* The steps of a call that has begun.
ThreadReturns(t) ==
    \/ AddEnter(t) \/ AddBody(t) \/ AddReturn(t) \/ AddPanic(t)
    \/ ResetEnter(t) \/ ResetBody(t) \/ ResetReturn(t)
    \/ GUResolve(t) \/ GUReenter(t) \/ GUReexit(t) \/ GUResolved(t) \/ GUUnlocks(t)

\* The threads under a fair scheduler: a thread inside a call that can take
\* its next step again and again takes it (a lock that is free again and
\* again is acquired); no thread has to begin a call.
LockFairSpec ==
    /\ LockInit /\ [][LockNext]_vars
    /\ \A t \in Threads : SF_vars(ThreadReturns(t))

(***************************************************************************)
(* stuntdoubleType call by call: every call of the function for an element,*)
(* a key or a field is a frame on the goroutine's stack.                   *)
(***************************************************************************)
\* The frames the goroutine's stack has room for.
StackLimit == MaxDepth + 4
\* The types stuntdoubleType calls itself for, in the order of the calls.
Callees(t) ==
    LET realType == RealTypeOf(t)
    IN  IF ImplementsUnmarshaler(realType) THEN <<>>
        ELSE CASE realType.kind \in {"ptr", "array", "slice"} -> <<realType.elem>>
               [] realType.kind = "struct" ->
                     [i \in 1..Len(realType.fields) |-> realType.fields[i].type]
               [] realType.kind = "map" -> <<realType.key, realType.elem>>
               [] OTHER -> <<>>
\* A call of stuntdoubleType(t, cbs): i of its own calls have returned,
\* hasStunt tells whether one of them replaced an interface.
Frame(t, i, hasStunt) == [type |-> t, i |-> i, hasStunt |-> hasStunt]
\* The error of a call whose call number i returned the error e.
CalleeErr(realType, i, e) ==
    CASE realType.kind = "ptr" -> Errorf("stuntdoubleType(ptr elem) error", e)
      [] realType.kind = "array" -> Errorf("stuntdoubleType(array elem) error", e)
      [] realType.kind = "slice" -> Errorf("stuntdoubleType(slice elem) error", e)
      [] realType.kind = "struct" ->
            IF e.kind = "panic" THEN e
            ELSE [kind |-> "fmt", msg |-> "stuntdoubleType(struct field) error",
                  ctx |-> realType.fields[i].name, inner |-> e]
      [] realType.kind = "map" ->
            IF i = 1 THEN Errorf("stuntdoubleType(map key) error", e)
            ELSE Errorf("stuntdoubleType(slice elem) error", e)
\* What a call returns when all its own calls have returned without error.
OwnResult(f) ==
    LET realType == RealTypeOf(f.type)
    IN  IF ImplementsUnmarshaler(realType) THEN [hasStunt |-> FALSE, err |-> NoErr]
        ELSE CASE realType.kind = "iface" ->
                     [hasStunt |-> Has(cbs, TypeString(realType)), err |-> NoErr]
               [] realType.kind = "chan" ->
                     [hasStunt |-> FALSE, err |-> ErrNew("Chan unmarshal not yet implemented")]
               [] realType.kind = "struct" /\ f.hasStunt ->
                     [hasStunt |-> TRUE, err |-> StructOf(realType.fields).err]
               [] OTHER -> [hasStunt |-> f.hasStunt, err |-> NoErr]

\* The types the Deriver is called for: the types of the decodes, and types
\* that hold declared types.
DeriveInit ==
    /\ \E path \in Paths,
          leaf \in Leaves \cup {TNamed(n) : n \in {"Node", "NodeI", "List", "Tree", "Cow"}} :
          /\ destPtr = DestPtr("ptr", BuildType(path, leaf), Zero(BuildType(path, leaf)))
          /\ structOf \in (IF \E i \in 1..Len(path) : path[i] = "privfield"
                           THEN StructOfOutcomes ELSE {"panics"})
    /\ cbs \in {TheCBMap, EmptyCBMap}
    /\ stack = <<Frame(destPtr.type, 0, FALSE)>>
    /\ pc = "derive" /\ bs = JNull /\ prior = destPtr.val /\ ret = NoErr /\ log = <<>>
    /\ globalCBs = GlobalCBs(EmptyCBMap, 0, 0)
    /\ th = [t \in Threads |-> Idle]

\* stuntdoubleType calls itself for the next element, key or field.
DeriveCall ==
    /\ pc = "derive" /\ ret = NoErr
    /\ LET f == stack[Len(stack)]
       IN  /\ f.i < Len(Callees(f.type))
           /\ Len(stack) < StackLimit
           /\ stack' = Append(stack, Frame(Callees(f.type)[f.i + 1], 0, FALSE))
    /\ UNCHANGED <<pc, bs, destPtr, prior, cbs, ret, log, structOf, globalCBs, th>>

\* The call has no room on the stack: the Go runtime ends the program
\* ("goroutine stack exceeds 1000000000-byte limit", "fatal error: stack
\* overflow"), which no recover() catches.
DeriveOverflow ==
    /\ pc = "derive" /\ ret = NoErr
    /\ LET f == stack[Len(stack)]
       IN  /\ f.i < Len(Callees(f.type))
           /\ Len(stack) >= StackLimit
    /\ pc' = "overflow"
    /\ ret' = Panic("fatal error: stack overflow")
    /\ UNCHANGED <<bs, destPtr, prior, cbs, log, structOf, globalCBs, th, stack>>

\* The innermost call returns: to the call that made it, or to the caller.
DeriveReturn ==
    /\ pc = "derive"
    /\ LET n == Len(stack)
           f == stack[n]
           own == IF ret # NoErr THEN [hasStunt |-> FALSE, err |-> ret] ELSE OwnResult(f)
       IN  /\ ret # NoErr \/ f.i = Len(Callees(f.type))
           /\ IF n = 1
              THEN /\ stack' = <<>>
                   /\ ret' = own.err
                   /\ pc' = "returned"
              ELSE /\ stack' = Append(SubSeq(stack, 1, n - 2),
                                      Frame(stack[n - 1].type, stack[n - 1].i + 1,
                                            stack[n - 1].hasStunt \/ own.hasStunt))
                   /\ ret' = IF own.err = NoErr THEN NoErr
                             ELSE CalleeErr(RealTypeOf(stack[n - 1].type), stack[n - 1].i + 1, own.err)
                   /\ pc' = pc
    /\ UNCHANGED <<bs, destPtr, prior, cbs, log, structOf, globalCBs, th>>

DeriveNext == DeriveCall \/ DeriveOverflow \/ DeriveReturn

DeriveSpec == DeriveInit /\ [][DeriveNext]_vars

\* A call that has begun runs on.
DeriveFairSpec == DeriveSpec /\ WF_vars(DeriveNext)

(***************************************************************************)
(* The placeholder's own methods, called directly: bytes are stored in a   *)
(* placeholder and written again, and a placeholder is written and its     *)
(* output stored in a fresh one.                                           *)
(***************************************************************************)
\* The byte strings: no bytes, JSON values, and bytes that are no JSON.
StuntBytes ==
    {JEmpty, JBad, JNull, JNum(1), JStr("x"), JStr("null"), JArr(<<JNull>>), JArr(<<>>),
     TokPent(5), TokAlien, TokCow(JArr(<<TokPent(5)>>))}

\* pc is "ready" before me.UnmarshalJSON(bs) and "encode" before
\* me.MarshalJSON(); prior is the placeholder before the calls.
StuntInit ==
    /\ pc \in {"ready", "encode"}
    /\ bs \in StuntBytes
    /\ \E s \in StuntBytes, h \in {"ptr", "nilPtr"} :
          /\ h = "nilPtr" => s = JEmpty /\ pc = "ready"
          /\ destPtr = DestPtr(h, STUNT_TYPE, VStunt(s))
    /\ prior = destPtr.val
    /\ cbs = EmptyCBMap /\ ret = NoErr /\ log = <<>> /\ structOf = "panics"
    /\ globalCBs = GlobalCBs(EmptyCBMap, 0, 0)
    /\ th = [t \in Threads |-> Idle]
    /\ stack = <<>>

\* e := me.UnmarshalJSON(bs)
StuntStore ==
    /\ pc = "ready"
    /\ LET r == UnmarshalJSON(destPtr, bs)
       IN  destPtr' = [destPtr EXCEPT !.val = r.val] /\ ret' = r.err
    /\ pc' = "stored"
    /\ UNCHANGED <<bs, prior, cbs, log, structOf, globalCBs, th, stack>>

\* bs, _ = me.MarshalJSON(), after the store
StuntEmit ==
    /\ pc = "stored" /\ ret = NoErr
    /\ bs' = MarshalJSON(destPtr.val)
    /\ pc' = "done"
    /\ UNCHANGED <<destPtr, prior, cbs, ret, log, structOf, globalCBs, th, stack>>

\* bs, _ = me.MarshalJSON(), of the placeholder as it is
StuntEmitFirst ==
    /\ pc = "encode"
    /\ bs' = MarshalJSON(destPtr.val)
    /\ pc' = "encoded"
    /\ UNCHANGED <<destPtr, prior, cbs, ret, log, structOf, globalCBs, th, stack>>

\* var s2 StuntDouble; e := s2.UnmarshalJSON(bs): the output is decoded into
\* a fresh placeholder, which the destination then holds.
StuntDecode ==
    /\ pc = "encoded"
    /\ LET r == UnmarshalJSON(DestPtr("ptr", STUNT_TYPE, Zero(STUNT_TYPE)), bs)
       IN  destPtr' = [destPtr EXCEPT !.val = r.val] /\ ret' = r.err
    /\ pc' = "decoded"
    /\ UNCHANGED <<bs, prior, cbs, log, structOf, globalCBs, th, stack>>

StuntNext == StuntStore \/ StuntEmit \/ StuntEmitFirst \/ StuntDecode

StuntSpec == StuntInit /\ [][StuntNext]_vars

(***************************************************************************)
(* Properties.                                                             *)
(***************************************************************************)
\* The events of the caller's own call in which a resolver ran.
CBEvents == {i \in DOMAIN log : log[i].ev = "cb"}

\* C1: when a resolver called for a registered slot, under whatever pointers,
\* arrays, slices, struct fields, map keys and map values, returned the error
\* E, Unmarshal and GlobalUnmarshal return exactly E, with no context added.
C1_ResolverErrorUnwrapped ==
    pc = "done" => \A i \in CBEvents : log[i].err # NoErr => ret = log[i].err

\* C1 happens: a slot under a map value and a slice whose resolver failed.
C1_Witness ==
    /\ pc = "done"
    /\ destPtr.type = BuildType(<<"mapval", "slice">>, TIface(NameI))
    /\ \E i \in CBEvents : log[i].depth = 0 /\ log[i].err = ErrUser("Negative Side")
    /\ ret = ErrUser("Negative Side")

RECURSIVE Reachable(_)
\* The types that are t or lie in it, through pointers, arrays, slices, struct
\* fields, map keys and map values.
Reachable(t) ==
    {t} \cup
    CASE t.kind \in {"ptr", "array", "slice"} -> Reachable(t.elem)
      [] t.kind = "struct" -> UNION {Reachable(t.fields[i].type) : i \in 1..Len(t.fields)}
      [] t.kind = "map" -> Reachable(t.key) \cup Reachable(t.elem)
      [] t.kind = "custom" -> Reachable(t.elem)
      [] OTHER -> {}

RECURSIVE Traversed(_)
\* The types among them that do not lie in a type with a custom decode
\* routine: the Deriver returns such a type before it looks into it.
Traversed(t) ==
    {t} \cup
    CASE ImplementsUnmarshaler(t) -> {}
      [] t.kind \in {"ptr", "array", "slice"} -> Traversed(t.elem)
      [] t.kind = "struct" -> UNION {Traversed(t.fields[i].type) : i \in 1..Len(t.fields)}
      [] t.kind = "map" -> Traversed(t.key) \cup Traversed(t.elem)
      [] OTHER -> {}
\* Whether a type that satisfies P is reachable in t for the Deriver.
Reaches(t, P(_)) == \E u \in Traversed(t) : P(u)

\* An interface with a resolver in the caller's registry and without a
\* custom decode routine among its methods.
IsCovered(t) == t.kind = "iface" /\ ~ImplementsUnmarshaler(t) /\ t.name \in DOMAIN cbs
\* A channel, or another kind the Deriver does not know.
IsUnsupported(t) == t.kind \notin {"int", "string", "ptr", "iface", "array", "slice", "struct", "map", "stunt", "custom"}

\* What json.Unmarshal(bs, dest) gives for the caller's input and destination.
Generic == JsonUnmarshal(bs, destPtr.type, prior)
\* The call returned what the generic decoder returns and stored what it stores.
SameAsGeneric == ret = Generic.err /\ destPtr.val = Generic.val

\* C2: for a destination type in which the Deriver reaches no registry-covered
\* interface and no channel or other unsupported kind (it answers
\* needsShadow=false without an error), and for every input, Unmarshal returns
\* the error and leaves the destination value that json.Unmarshal does.
C2_FastPathEquivalence ==
    (/\ pc = "done" /\ destPtr.h = "ptr"
     /\ ~Reaches(destPtr.type, IsCovered)
     /\ ~Reaches(destPtr.type, IsUnsupported)) => SameAsGeneric

\* C2 happens: a map of slices of an interface without a resolver, beside a
\* registry that is not empty, was decoded.
C2_Witness ==
    /\ pc = "done" /\ destPtr.h = "ptr" /\ cbs = TheCBMap
    /\ destPtr.type = BuildType(<<"mapval", "slice">>, TIface(NameJ))
    /\ ret = NoErr /\ destPtr.val # prior
    /\ SameAsGeneric

\* C2 as claimed: every type without a registry-covered interface decodes as
\* json.Unmarshal does.
C2_Original ==
    (/\ pc = "done" /\ destPtr.h = "ptr"
     /\ ~Reaches(destPtr.type, IsCovered)) => SameAsGeneric

\* The shadow tree: what the generic decoder makes of the input in a fresh
\* value of the shadow type.
ShadowType == stuntdoubleType(destPtr.type, cbs).type
Shadow == JsonUnmarshal(bs, ShadowType, Zero(ShadowType)).val

RECURSIVE Placeholders(_)
\* The bytes of the placeholders of a shadow value, one entry for each.
Placeholders(v) ==
    CASE v.t = "stunt" -> <<v.b>>
      [] v.t = "ptr" -> Placeholders(v.p)
      [] v.t = "seq" /\ v.e # <<>> -> Placeholders(Head(v.e)) \o Placeholders(VSeq(Tail(v.e)))
      [] v.t = "struct" /\ v.f # <<>> -> Placeholders(Head(v.f)) \o Placeholders(VStruct(Tail(v.f)))
      [] v.t = "map" /\ v.m # {} ->
            LET e == CHOOSE e \in v.m : TRUE
            IN  Placeholders(e.k) \o Placeholders(e.v) \o Placeholders(VMap(v.m \ {e}))
      [] OTHER -> <<>>

\* The resolver calls the caller's own Unmarshal made.
OwnCBEvents == {i \in CBEvents : log[i].depth = 0}
\* What the resolver returned for the bytes b.
Resolved(b) == log[CHOOSE i \in OwnCBEvents : log[i].bs = b].val

RECURSIVE Corresponds(_, _)
\* The real value holds the resolver's result wherever the shadow value sd
\* holds a placeholder: element i for element i, field for field, an entry
\* for every entry.
Corresponds(sd, real) ==
    CASE sd.t = "stunt" -> (\E i \in OwnCBEvents : log[i].bs = sd.b) /\ real = Resolved(sd.b)
      [] sd.t = "ptr" -> real.t = "ptr" /\ Corresponds(sd.p, real.p)
      [] sd.t = "seq" ->
            /\ real.t = "seq" /\ Len(real.e) = Len(sd.e)
            /\ \A i \in 1..Len(sd.e) : Corresponds(sd.e[i], real.e[i])
      [] sd.t = "struct" ->
            /\ real.t = "struct" /\ Len(real.f) = Len(sd.f)
            /\ \A i \in 1..Len(sd.f) : Corresponds(sd.f[i], real.f[i])
      [] sd.t = "map" ->
            /\ real.t = "map"
            /\ \A e \in sd.m : \E f \in real.m : Corresponds(e.k, f.k) /\ Corresponds(e.v, f.v)
      [] OTHER -> TRUE

\* The call took the shadow path and succeeded.
ShadowSuccess ==
    /\ pc = "done" /\ destPtr.h = "ptr" /\ ret = NoErr
    /\ Reaches(destPtr.type, IsCovered)

\* C3: a successful Unmarshal has called the resolver once for each placeholder
\* of the decoded shadow tree, with the bytes captured there, and the
\* destination holds the resolver's result at the placeholder's position;
\* element i of a slice or array is the result for token i.
C3_ResolvedOncePerPlaceholder ==
    ShadowSuccess =>
        /\ Cardinality(OwnCBEvents) = Len(Placeholders(Shadow))
        /\ \A b \in {log[i].bs : i \in OwnCBEvents} :
              Cardinality({i \in OwnCBEvents : log[i].bs = b})
                  = Cardinality({n \in 1..Len(Placeholders(Shadow)) : Placeholders(Shadow)[n] = b})
        /\ Corresponds(Shadow, destPtr.val)

\* C3 happens: a slice in a struct was decoded from two tokens into two values
\* of different concrete types, in the tokens' order.
C3_Witness ==
    /\ ShadowSuccess
    /\ destPtr.type = BuildType(<<"field", "slice">>, TIface(NameI))
    /\ Shadow.f[1] = VSeq(<<VStunt(TokPent(5)), VStunt(TokCow(JNull))>>)
    /\ destPtr.val.f[1] = VSeq(<<ValPent, ValCow(VSeq(<<>>))>>)

\* The values vals fill every interface slot of the value built along path.
Full(path, vals) ==
    /\ vals # <<>>
    /\ \A i \in 1..Len(path) :
          path[i] = "array" =>
              Len(vals) = MaxLen /\ \A j \in 1..(i - 1) : path[j] \notin Wide

\* The call decoded the encoding of the value the destination held: v is
\* built of concrete values of the registered interface, and bs is
\* json.Marshal(v).
IsRoundTrip ==
    /\ pc = "done" /\ destPtr.h = "ptr" /\ cbs = TheCBMap
    /\ \E path \in Paths, vals \in SeqsUpTo(Values, MaxLen) :
          /\ Fits(path, vals) /\ Full(path, vals)
          /\ destPtr.type = BuildType(path, TIface(NameI))
          /\ prior = BuildValue(path, TIface(NameI), vals)
    /\ bs = Marshal(prior, destPtr.type)

\* C4: decoding the encoding of a value v of a type with a registered
\* resolver, whose encoding carries the discriminator, succeeds and leaves
\* a destination equal to v field by field, also inside maps of slices and
\* with nested values resolved by re-entering GlobalUnmarshal.
C4_RoundTrip ==
    IsRoundTrip => ret = NoErr /\ destPtr.val = prior

\* C5: an AddGlobalCB call that finds its name in the registry panics in that
\* call, whether or not its resolver is the registered one: it leaves the
\* body only by the panic, the registry is as it was, and no step of any
\* thread gives a registered name another resolver.
C5_DuplicatePanics ==
    [][\A t \in Threads :
          /\ (th[t].pc = "add_in" /\ Has(globalCBs.m, th[t].name)) =>
                /\ th'[t].pc \in {"add_in", "add_panic"}
                /\ globalCBs'.m = globalCBs.m
          /\ th[t].pc = "add_panic" => th'[t].pc \in {"add_panic", "panicked"}
          /\ th[t].pc = "panicked" => th'[t].pc = "panicked"
          /\ \A n \in DOMAIN globalCBs.m \cap DOMAIN globalCBs'.m :
                globalCBs'.m[n] = globalCBs.m[n]]_vars

\* C5 happens: one thread has panicked on registering the registered resolver
\* again, another is in the panic of registering a different resolver under
\* the same name, and the name still has the first resolver.
C5_Witness ==
    \E t, u \in Threads :
        /\ th[t].pc = "panicked" /\ th[u].pc = "add_panic"
        /\ th[t].name = NameI /\ th[u].name = NameI
        /\ Has(globalCBs.m, NameI)
        /\ th[t].cb = globalCBs.m[NameI] /\ th[u].cb # globalCBs.m[NameI]

\* The read locks the threads hold: one for each GlobalUnmarshal in progress,
\* the resolver's own call included.
ReadLocksHeld ==
    Cardinality({t \in Threads : th[t].pc \in ReaderPcs})
        + Cardinality({t \in Threads : th[t].pc = "gu_in2"})

C7_InSeries ==
    Cardinality({t \in Threads : th[t].pc \in ReaderPcs}) <= 1

\* The configuration error of an invalid destination handle.
ConfigErr(h) ==
    CASE h = "untypedNil" -> ErrNew("invalid destPtr")
      [] h = "nonPtr" -> ErrNew("destPtr is not a pointer")
      [] h = "nilPtr" -> ErrNew("nil destPtr")

\* C8: for a destination that is an untyped nil, no pointer or a nil pointer
\* Unmarshal returns the configuration error of that case, whatever the
\* bytes are, and has derived no type, parsed no byte, called no resolver and
\* stored nothing.
C8_InvalidDestinationRejected ==
    (pc = "done" /\ destPtr.h # "ptr") =>
        /\ ret = ConfigErr(destPtr.h)
        /\ log = <<>>
        /\ destPtr.val = prior

\* C8 happens: a nil pointer was passed with bytes that are no JSON.
C8_Witness ==
    /\ pc = "done" /\ destPtr.h = "nilPtr" /\ bs = JBad
    /\ ret = ErrNew("nil destPtr")

RECURSIVE RootErr(_)
\* The error at the bottom of the context that fmt.Errorf has put around it.
RootErr(e) == IF e.kind = "fmt" THEN RootErr(e.inner) ELSE e

RECURSIVE Holds(_, _)
\* Whether the value v is or holds the value x.
Holds(v, x) ==
    \/ v = x
    \/ CASE v.t = "ptr" -> Holds(v.p, x)
         [] v.t = "dyn" -> Holds(v.d, x)
         [] v.t = "seq" -> \E i \in 1..Len(v.e) : Holds(v.e[i], x)
         [] v.t = "struct" -> \E i \in 1..Len(v.f) : Holds(v.f[i], x)
         [] v.t = "map" -> \E e \in v.m : Holds(e.k, x) \/ Holds(e.v, x)
         [] OTHER -> FALSE

\* The resolver's value whose type does not have the interface's methods.
AlienValue == VDyn("Alien", VStruct(<<>>))
\* The resolver calls of the caller's Unmarshal that returned it, and no error.
AlienEvents == {i \in OwnCBEvents : log[i].err = NoErr /\ log[i].val = AlienValue}

\* C9: when a slot's resolver returned, without an error, a value whose type
\* is not assignable to the slot's interface, Unmarshal returns the error
\* "cb result not assignable" with context around it, which is no error a
\* resolver returned, and the value is nowhere in the destination.
C9_NotAssignableRejected ==
    (pc = "done" /\ AlienEvents # {}) =>
        /\ ret.kind = "fmt"
        /\ RootErr(ret) = ErrNew("cb result not assignable")
        /\ \A j \in CBEvents : log[j].err # ret
        /\ ~Holds(destPtr.val, AlienValue)

\* C9 happens: the slot is behind a pointer in a struct field; the pointee was
\* allocated and the slot in it is still nil.
C9_Witness ==
    /\ pc = "done" /\ AlienEvents # {}
    /\ destPtr.type = BuildType(<<"field", "ptr">>, TIface(NameI))
    /\ ret.kind = "fmt"
    /\ destPtr.val.f[1] = VPtr(VNil)

\* What the Deriver returns for the destination's type.
Derived == stuntdoubleType(destPtr.type, cbs)

\* The outcome of a call the Deriver has refused: its error with context, no
\* byte parsed, no resolver called, nothing stored.
DeriverRefused ==
    /\ Derived.err # NoErr
    /\ RootErr(Derived.err) \in {ErrNew("Chan unmarshal not yet implemented"),
                                 ErrNew("Unsupported Kind")}
    /\ ret = ErrFmt("stuntdoubleType error", Derived.err)
    /\ log = <<EvDerive(0)>>
    /\ destPtr.val = prior

PrivStructs(t) ==
    {u \in Traversed(t) :
        /\ u.kind = "struct"
        /\ \E i \in 1..Len(u.fields) :
              ~u.fields[i].exported /\ Reaches(u.fields[i].type, IsCovered)}

\* C11: for a struct with a field that is not exported and whose type needs
\* substitution, the Deriver returns an error value and Unmarshal returns
\* that error, with its context, instead of crashing or succeeding.
C11_NonPublicFieldRejected ==
    (pc = "done" /\ destPtr.h = "ptr" /\ PrivStructs(destPtr.type) # {}) =>
        /\ Derived.err.kind \notin {"nil", "panic"}
        /\ ret = ErrFmt("stuntdoubleType error", Derived.err)

\* What happens instead where reflect.StructOf panics (and no channel makes
\* the Deriver fail before): the call crashes.
C11_Crashes ==
    (/\ pc = "done" /\ destPtr.h = "ptr" /\ structOf = "panics"
     /\ PrivStructs(destPtr.type) # {} /\ ~Reaches(destPtr.type, IsUnsupported)) =>
        /\ Derived.err = Panic("reflect.StructOf: StructOf does not allow unexported fields")
        /\ ret = Derived.err
\* What happens where reflect.StructOf makes the type: the Deriver answers
\* needsShadow=true without an error, and the call crashes, succeeds or
\* fails later, in the decoder or in the reconciler.
C11_NoDeriverError ==
    (/\ pc = "done" /\ destPtr.h = "ptr" /\ structOf = "allows"
     /\ PrivStructs(destPtr.type) # {} /\ ~Reaches(destPtr.type, IsUnsupported)) =>
        /\ Derived.err = NoErr /\ Derived.hasStunt
        /\ \/ ret.kind = "panic"
           \/ ret = NoErr
           \/ ret.kind = "fmt" /\ ret.msg \in {"json.Unmarshal error", "stuntdoubleToReal error"}

RECURSIVE SlotValues(_, _, _)
\* The values the value v of type t holds where its type has the type slot.
SlotValues(v, t, slot) ==
    IF t = slot THEN {v}
    ELSE CASE v.t = "ptr" -> SlotValues(v.p, t.elem, slot)
           [] v.t = "seq" -> UNION {SlotValues(v.e[i], t.elem, slot) : i \in 1..Len(v.e)}
           [] v.t = "struct" ->
                UNION {SlotValues(v.f[i], t.fields[i].type, slot) : i \in 1..Len(v.f)}
           [] v.t = "map" ->
                UNION {SlotValues(e.k, t.key, slot) \cup SlotValues(e.v, t.elem, slot) : e \in v.m}
           [] OTHER -> {}

\* The destination has slots of the interface type slot, which has no
\* resolver in the registry, where the decoder reaches them (a map key and a
\* field that is not exported are not decoded from a JSON value); an
\* interface beside it is registered.
UnregisteredSlot(slot, path) ==
    /\ slot.name \notin DOMAIN cbs
    /\ destPtr.type = BuildType(path, slot)
    /\ \A i \in 1..Len(path) :
          /\ path[i] \notin {"mapkey", "privfield"}
          /\ path[i] = "beside" => cbs = TheCBMap

\* The call decoded the document of toks; the interface beside the slot has
\* its document in every element of an array.
SlotDoc(path, toks) ==
    /\ toks # <<>> /\ Fits(path, toks)
    /\ (\E i \in 1..Len(path) : path[i] = "beside") => Full(path, toks)
    /\ bs = BuildDoc(path, toks)

\* The slot was left to the generic decoder: null tokens leave null slots
\* and the call succeeds, a token that is not null makes the call fail with
\* the decoder's error, and no resolver was called for the slot's name.
LeftToGeneric(slot, toks) ==
    /\ \A i \in CBEvents : log[i].name # slot.name
    /\ (\A n \in 1..Len(toks) : toks[n] = JNull) =>
          ret = NoErr /\ SlotValues(destPtr.val, destPtr.type, slot) \subseteq {VNil}
    /\ (\E n \in 1..Len(toks) : toks[n] # JNull) => RootErr(ret) = TypeError

Reenters(b) == JsonUnmarshal(b, DataType, Zero(DataType)).val.f[1] = VStr("Cow")

\* C13: the engine derives no shadow for what a resolver returns. The
\* resolver calls of the caller's own Unmarshal are calls for placeholders of
\* the shadow of the destination's type, at most one for each; after a
\* successful call the destination holds every value as the resolver
\* returned it; and events of a nested Unmarshal lie only before the return
\* of a resolver that has called it: no resolver that does not re-enter is
\* preceded by a deeper event.
C13_OutputsNotRederived ==
    (pc = "done" /\ destPtr.h = "ptr") =>
        /\ \A i \in OwnCBEvents :
              /\ \E u \in Traversed(destPtr.type) : IsCovered(u) /\ u.name = log[i].name
              /\ \E n \in 1..Len(Placeholders(Shadow)) : Placeholders(Shadow)[n] = log[i].bs
        /\ Cardinality(OwnCBEvents) <= Len(Placeholders(Shadow))
        /\ ret = NoErr => \A i \in OwnCBEvents : Holds(destPtr.val, log[i].val)
        /\ \A j \in DOMAIN log :
              log[j].depth > 0 =>
                  \E i \in CBEvents :
                      i > j /\ log[i].depth = log[j].depth - 1 /\ Reenters(log[i].bs)
        /\ \A i \in CBEvents :
              (i > 1 /\ ~Reenters(log[i].bs)) => log[i - 1].depth <= log[i].depth

\* C13 happens: the resolver of a slice's element left the value to the
\* generic decoder; the value is stored as returned, the interface in it is
\* nil, and no nested call was made.
C13_Witness ==
    /\ pc = "done" /\ destPtr.h = "ptr" /\ ret = NoErr
    /\ destPtr.type = BuildType(<<"slice">>, TIface(NameI))
    /\ destPtr.val = VSeq(<<VDyn("Calf", VStruct(<<VStr("Bessie"), VSeq(<<VNil>>)>>))>>)
    /\ OwnCBEvents # {} /\ \A j \in DOMAIN log : log[j].depth = 0

\* C14: ResetGlobalCBs leaves the registry empty: it leaves its body and
\* returns with no name registered; an AddGlobalCB that finds the registry
\* empty stores its resolver under its name, whatever name it is, and does
\* not panic; a GlobalUnmarshal that runs on the empty registry returns
\* without a resolver call.
C14_ResetEmpties ==
    [][\A t \in Threads :
          /\ (th[t].pc = "reset_in" /\ th'[t].pc # "reset_in") =>
                th'[t].pc = "reset_ret" /\ globalCBs'.m = EmptyCBMap
          /\ th[t].pc = "reset_ret" =>
                /\ globalCBs.m = EmptyCBMap /\ globalCBs'.m = EmptyCBMap
                /\ th'[t].pc \in {"reset_ret", "idle"}
          /\ (th[t].pc = "add_in" /\ globalCBs.m = EmptyCBMap /\ th'[t].pc # "add_in") =>
                /\ th'[t].pc = "add_ret"
                /\ DOMAIN globalCBs'.m = {th[t].name}
                /\ globalCBs'.m[th[t].name] = th[t].cb
          /\ (th[t].pc = "gu_in" /\ globalCBs.m = EmptyCBMap /\ th'[t].pc # "gu_in") =>
                th'[t].pc = "idle" /\ th'[t].ncb = 0]_vars

\* C14 happens: a thread has registered the name of I and returned, and
\* another thread's ResetGlobalCBs, which took the lock after that, has
\* emptied the registry.
C14_Witness ==
    \E t, u \in Threads :
        /\ th[t].pc = "reset_ret" /\ globalCBs.m = EmptyCBMap
        /\ th[u].pc = "idle" /\ th[u].name = NameI /\ th[u].cb = "cb1"

\* What stuntdoubleType answers for the interface type u: the placeholder
\* type with needsShadow=true when u's name is a key of the registry, u
\* itself with needsShadow=false when it is not, and no error.
ByRegistry(u) ==
    LET d == stuntdoubleType(u, cbs)
    IN  /\ d.err = NoErr
        /\ d.hasStunt <=> u.name \in DOMAIN cbs
        /\ d.type = IF u.name \in DOMAIN cbs THEN STUNT_TYPE ELSE u

\* C15: for every interface type the Deriver has come to in the
\* destination's type, and that has no custom decode routine among its
\* methods, stuntdoubleType returns the placeholder type and needsShadow=true
\* if and only if the interface's name is a key of the registry, and else
\* the interface type itself, needsShadow=false and no error.
C15_InterfaceByRegistry ==
    (pc = "done" /\ destPtr.h = "ptr") =>
        \A u \in Traversed(destPtr.type) :
            (u.kind = "iface" /\ ~ImplementsUnmarshaler(u)) => ByRegistry(u)

\* C15 happens: a struct with an interface without a resolver and one with.
C15_Witness ==
    /\ pc = "done" /\ destPtr.h = "ptr" /\ cbs = TheCBMap
    /\ destPtr.type = BuildType(<<"beside">>, TIface(NameJ))
    /\ Derived.hasStunt
    /\ Derived.type = TStruct(<<Field("F", TIface(NameJ)), Field("G", STUNT_TYPE)>>)

\* C15 as stated, for every interface type.
C15_Original ==
    (pc = "done" /\ destPtr.h = "ptr") =>
        \A u \in Traversed(destPtr.type) : u.kind = "iface" => ByRegistry(u)

\* A type built of pointers, arrays, slices, structs, maps, interfaces and
\* primitives: no type with a custom decode routine and no unsupported kind
\* lies in it.
IsPlain(t) ==
    \A u \in Reachable(t) : ~ImplementsUnmarshaler(u) /\ ~IsUnsupported(u)

\* What the claim says of stuntdoubleType(u, cbs).
ShadowIffSlot(u) ==
    LET d == stuntdoubleType(u, cbs)
    IN  /\ d.err = NoErr
        /\ d.hasStunt <=> Reaches(u, IsCovered)
        /\ ~d.hasStunt => d.type = u
        /\ (u.kind = "map" /\ d.hasStunt) =>
              /\ d.type = TMap(stuntdoubleType(u.key, cbs).type,
                               stuntdoubleType(u.elem, cbs).type)
              /\ Reaches(u.key, IsCovered) => d.type.key # u.key
              /\ Reaches(u.elem, IsCovered) => d.type.elem # u.elem
              /\ ~Reaches(u.key, IsCovered) => d.type.key = u.key
              /\ ~Reaches(u.elem, IsCovered) => d.type.elem = u.elem

\* C16: for every type built of pointers, arrays, slices, structs and maps,
\* stuntdoubleType answers needsShadow=true if and only if a registered
\* interface is reachable in it; with needsShadow=false it returns the type
\* itself; a map's key type and value type are substituted each on its own.
C16_ShadowIffSlot ==
    (pc = "done" /\ destPtr.h = "ptr" /\ IsPlain(destPtr.type)) =>
        \A u \in Traversed(destPtr.type) : ShadowIffSlot(u)

\* The same holds of the code wherever reflect.StructOf does not panic.
C16_WhereStructOfAllows ==
    (/\ pc = "done" /\ destPtr.h = "ptr" /\ IsPlain(destPtr.type)
     /\ (structOf = "allows" \/ PrivStructs(destPtr.type) = {})) =>
        \A u \in Traversed(destPtr.type) : ShadowIffSlot(u)

RECURSIVE SameShape(_, _)
\* The shadow type sd has the shape of the type real: the placeholder type
\* where real is a registered interface, and else real's kind, array length,
\* field names in real's order, and the same in every position below.
SameShape(real, sd) ==
    IF IsCovered(real) THEN sd = STUNT_TYPE
    ELSE IF ImplementsUnmarshaler(real) THEN sd = real
    ELSE /\ sd.kind = real.kind
         /\ CASE real.kind \in {"ptr", "slice"} -> SameShape(real.elem, sd.elem)
              [] real.kind = "array" -> sd.len = real.len /\ SameShape(real.elem, sd.elem)
              [] real.kind = "struct" ->
                    /\ Len(sd.fields) = Len(real.fields)
                    /\ \A i \in 1..Len(real.fields) :
                          /\ sd.fields[i].name = real.fields[i].name
                          /\ SameShape(real.fields[i].type, sd.fields[i].type)
              [] real.kind = "map" ->
                    SameShape(real.key, sd.key) /\ SameShape(real.elem, sd.elem)
              [] OTHER -> sd = real

\* The failures of stuntdoubleToReal for a shadow of another shape.
ShapeErrors ==
    {ErrNew("Incompatible stuntdouble and real kinds"), ErrNew("unequal array lengths"),
     ErrNew("unequal struct NumFields"), ErrNew("unequal struct field names")}

\* C17: the shadow type the Deriver returns has the shape of the
\* destination's type, and no Unmarshal call, the caller's or a resolver's,
\* ends in a shape-mismatch failure of the reconciler.
C17_ShapeIsomorphism ==
    (pc = "done" /\ destPtr.h = "ptr") =>
        /\ Derived.err = NoErr => SameShape(destPtr.type, Derived.type)
        /\ RootErr(ret) \notin ShapeErrors
        /\ \A i \in CBEvents : RootErr(log[i].err) \notin ShapeErrors

\* C17 happens: an array of structs was reconciled against its shadow, an
\* array of the same length of structs with the same field names.
C17_Witness ==
    /\ pc = "done" /\ destPtr.h = "ptr" /\ ret = NoErr
    /\ destPtr.type = BuildType(<<"array", "field">>, TIface(NameI))
    /\ Derived.type = TArray(MaxLen, TStruct(<<Field("F", STUNT_TYPE), Field("S", TString)>>))
    /\ Cardinality(OwnCBEvents) = MaxLen

\* The types with a custom decode routine: the named types with
\* UnmarshalJSON, the placeholder type among them, and the interface type
\* with UnmarshalJSON among its methods.
ExposesCustomDecode(u) == u.kind \in {"stunt", "custom"} \/ u = TIface(NameU)

\* The call decoded the document of toks into a destination with the type
\* slot under path.
DecodedAt(path, slot, toks) ==
    /\ destPtr.type = BuildType(path, slot)
    /\ Fits(path, toks) /\ bs = BuildDoc(path, toks)

\* The slot was assigned as a whole: no resolver was called with bytes from
\* inside it or for its own name, and after a successful call it holds what
\* the type's own routine made of its token (or is as it was where the
\* document has nothing for it).
AssignedWhole(slot, toks) ==
    /\ \A i \in CBEvents :
          IF slot.kind = "iface" THEN log[i].name # slot.name ELSE log[i].bs \notin Tokens(slot)
    /\ ret = NoErr =>
          SlotValues(destPtr.val, destPtr.type, slot) \subseteq
              {Zero(slot)} \cup {JsonDecode(toks[n], slot, Zero(slot)).val : n \in 1..Len(toks)}

\* C18: stuntdoubleType returns a type with a custom decode routine
\* unchanged with needsShadow=false, whatever its kind, also where it is a
\* registered interface or holds one; the reconciler assigns its value as a
\* whole and no resolver is called for a slot inside it.
C18_CustomDecodePrecedence ==
    (pc = "done" /\ destPtr.h = "ptr") =>
      /\ \A u \in Traversed(destPtr.type) :
            ExposesCustomDecode(u) => stuntdoubleType(u, cbs) = SDResult(u, FALSE, NoErr)
      /\ \A slot \in {TCustom(TChan), TCustom(TIface(NameI)), TIface(NameU)}, path \in Paths :
            destPtr.type = BuildType(path, slot) =>
              \A toks \in SeqsUpTo(Tokens(slot), MaxLen) :
                DecodedAt(path, slot, toks) => AssignedWhole(slot, toks)

\* C18 happens on the shadow path: the struct has a type with a custom
\* decode routine that holds the registered interface, beside a slot of the
\* registered interface; one resolver call was made, for the slot beside.
C18_Witness ==
    /\ pc = "done" /\ destPtr.h = "ptr" /\ cbs = TheCBMap /\ ret = NoErr
    /\ destPtr.type = BuildType(<<"beside">>, TCustom(TIface(NameI)))
    /\ Derived = SDResult(TStruct(<<Field("F", TCustom(TIface(NameI))),
                                   Field("G", STUNT_TYPE)>>), TRUE, NoErr)
    /\ destPtr.val = VStruct(<<VCustom(TokPent(-1)), ValPent>>)
    /\ Cardinality(CBEvents) = 1

\* C18 happens for the registered interface with a custom decode routine:
\* no resolver was called for it beside the slot that has one called.
C18_WitnessInterface ==
    /\ pc = "done" /\ destPtr.h = "ptr" /\ cbs = TheCBMap /\ ret = NoErr
    /\ destPtr.type = BuildType(<<"beside">>, TIface(NameU))
    /\ destPtr.val = VStruct(<<VNil, ValPent>>)
    /\ Cardinality(CBEvents) = 1

\* The shadow value the generic decoder made of the input.
ShadowValue == JsonUnmarshal(bs, Derived.type, Zero(Derived.type))

RECURSIVE Mirrors(_, _, _)
\* Every pointer of the value real, of type t, is null where the pointer of
\* the shadow value sd is, and points to a value where sd's does.
Mirrors(sd, real, t) ==
    CASE t.kind = "ptr" ->
            IF sd = VNil THEN real = VNil
            ELSE real # VNil /\ Mirrors(sd.p, real.p, t.elem)
      [] t.kind \in {"array", "slice"} /\ sd # VNil /\ real # VNil ->
            /\ Len(real.e) = Len(sd.e)
            /\ \A i \in 1..Len(sd.e) : Mirrors(sd.e[i], real.e[i], t.elem)
      [] t.kind = "struct" ->
            \A i \in 1..Len(t.fields) : Mirrors(sd.f[i], real.f[i], t.fields[i].type)
      [] t.kind = "map" /\ sd # VNil /\ real # VNil ->
            \A e \in sd.m, f \in real.m : f.k = e.k => Mirrors(e.v, f.v, t.elem)
      [] OTHER -> TRUE

RECURSIVE NullOverPointee(_, _, _)
\* A null pointer of the shadow value sd meets a pointer of real, of type
\* t, that points to a value and whose pointee type needs a shadow.
NullOverPointee(sd, real, t) ==
    CASE t.kind = "ptr" ->
            IF sd = VNil THEN real # VNil /\ stuntdoubleType(t, cbs).hasStunt
            ELSE real # VNil /\ NullOverPointee(sd.p, real.p, t.elem)
      [] t.kind = "array" /\ sd # VNil /\ real # VNil ->
            \E i \in 1..Len(sd.e) : NullOverPointee(sd.e[i], real.e[i], t.elem)
      [] t.kind = "struct" ->
            \E i \in 1..Len(t.fields) : NullOverPointee(sd.f[i], real.f[i], t.fields[i].type)
      [] t.kind = "map" /\ sd # VNil /\ real # VNil ->
            \E e \in sd.m, f \in real.m : f.k = e.k /\ NullOverPointee(e.v, f.v, t.elem)
      [] OTHER -> FALSE

\* A call on the shadow path in which every resolver called returned a
\* value of a type that implements the slot's interface, and whose
\* destination has no field that is not exported.
Reconciles ==
    /\ pc = "done" /\ destPtr.h = "ptr"
    /\ Derived.err = NoErr /\ Derived.hasStunt /\ ShadowValue.err = NoErr
    /\ \A i \in CBEvents :
          log[i].err = NoErr /\ log[i].val.t = "dyn" /\ log[i].val.ty \in Implementors
    /\ \A u \in Traversed(destPtr.type) :
          u.kind = "struct" => \A i \in 1..Len(u.fields) : u.fields[i].exported

\* C19: whatever the destination held before the call, the reconciliation
\* succeeds with every destination pointer null where the shadow pointer is
\* null and pointing to a value where the shadow pointer does.
C19_PointerMirrorsNull ==
    Reconciles => ret = NoErr /\ Mirrors(ShadowValue.val, destPtr.val, destPtr.type)

\* Where no null shadow pointer meets a destination pointer that points to
\* a value of a type that needs a shadow, the pointers mirror the shadow's.
C19_MirrorsElsewhere ==
    (Reconciles /\ ~NullOverPointee(ShadowValue.val, prior, destPtr.type)) =>
        ret = NoErr /\ Mirrors(ShadowValue.val, destPtr.val, destPtr.type)

\* Where one does, real.Set(sd) panics and the destination pointer is left
\* pointing to its value.
C19_SetPanics ==
    (Reconciles /\ destPtr.type = TPtr(TIface(NameI)) /\ prior # VNil /\ bs = JNull) =>
        ret = Panic("reflect.Set: value is not assignable") /\ destPtr.val = prior

RECURSIVE Context(_)
\* The positions the error e identifies, the outermost first: the values
\* formatted into its messages besides the inner error.
Context(e) ==
    IF e.kind # "fmt" THEN <<>>
    ELSE (IF "ctx" \in DOMAIN e THEN <<e.ctx>> ELSE <<>>) \o Context(e.inner)

RECURSIVE Msgs(_)
\* The messages of the error e, the outermost first.
Msgs(e) == IF e.kind # "fmt" THEN <<>> ELSE <<e.msg>> \o Msgs(e.inner)

RECURSIVE FieldNames(_)
\* The names of the struct fields on the way through path to the leaf.
FieldNames(path) ==
    IF path = <<>> THEN <<>>
    ELSE (CASE Head(path) \in {"field", "beside"} -> <<"F">>
            [] Head(path) = "privfield" -> <<"f">>
            [] OTHER -> <<>>) \o FieldNames(Tail(path))

RECURSIVE Positions(_)
\* The field names, sequence indices and map keys on the way through path
\* to the leaf made of the first token of a document.
Positions(path) ==
    IF path = <<>> THEN <<>>
    ELSE (CASE Head(path) \in {"field", "beside"} -> <<"F">>
            [] Head(path) \in {"array", "slice"} -> <<"0">>
            [] Head(path) = "mapval" -> <<"1">>
            [] OTHER -> <<>>) \o Positions(Tail(path))

RECURSIVE StepMsgs(_)
\* The messages the reconciler adds on the way back through path.
StepMsgs(path) ==
    IF path = <<>> THEN <<>>
    ELSE (CASE Head(path) = "array" -> <<"array element stuntdoubleToReal error">>
            [] Head(path) = "slice" -> <<"slice element stuntdoubleToReal error">>
            [] Head(path) \in {"field", "beside"} -> <<"struct field stuntdoubleToReal error">>
            [] Head(path) = "mapval" -> <<"map val stuntdoubleToReal error">>
            [] OTHER -> <<>>) \o StepMsgs(Tail(path))

\* The derivation failed at the channel under path.
DerivationFailedAt(path) ==
    /\ pc = "done" /\ destPtr.h = "ptr"
    /\ destPtr.type = BuildType(path, TChan)

\* The reconciliation failed at the slot under path, whose resolver
\* returned a value of a type that is not assignable to the slot.
ReconciliationFailedAt(path) ==
    /\ pc = "done" /\ destPtr.h = "ptr" /\ cbs = TheCBMap
    /\ \A i \in 1..Len(path) : path[i] \notin {"mapkey", "privfield"}
    /\ destPtr.type = BuildType(path, TIface(NameI))
    /\ bs = BuildDoc(path, <<TokAlien>>)

\* C20: a failure of derivation is returned with the names of the struct
\* fields on the path to the failing node; a failure of reconciliation is
\* returned with the kinds of the steps on the path only, and identifies no
\* field name, sequence index or map key.
C20_PathContext ==
    \A path \in Paths :
      /\ DerivationFailedAt(path) =>
            /\ RootErr(ret) = ErrNew("Chan unmarshal not yet implemented")
            /\ Context(ret) = FieldNames(path)
      /\ ReconciliationFailedAt(path) =>
            /\ RootErr(ret) = ErrNew("cb result not assignable")
            /\ Msgs(ret) = <<"stuntdoubleToReal error">> \o StepMsgs(path)
            /\ Context(ret) = <<>>

\* C20 happens in reconciliation: the slot is in a struct in an array, the
\* error has the two steps and not the index or the field's name.
C20_Witness ==
    /\ ReconciliationFailedAt(<<"array", "field">>)
    /\ ret = ErrFmt("stuntdoubleToReal error",
                ErrFmt("array element stuntdoubleToReal error",
                  ErrFmt("struct field stuntdoubleToReal error",
                    ErrNew("cb result not assignable"))))

\* C20 happens in derivation: the channel is in a struct in a struct field.
C20_WitnessDerivation ==
    /\ DerivationFailedAt(<<"field", "privfield">>)
    /\ Context(ret) = <<"F", "f">>

\* C20 as stated: the error of either phase identifies every field name,
\* sequence index and map key on the path to the failing node.
C20_Original ==
    \A path \in Paths :
      /\ DerivationFailedAt(path) => Context(ret) = FieldNames(path)
      /\ ReconciliationFailedAt(path) => Context(ret) = Positions(path)

\* C21: bytes that are not empty are stored in a placeholder as they are
\* and MarshalJSON then returns them as they are; a placeholder that is not
\* empty, written by MarshalJSON and decoded from that output, is the same
\* placeholder again.
C21_PlaceholderRoundTrip ==
    /\ (pc = "stored" /\ destPtr.h = "ptr") => ret = NoErr /\ destPtr.val = VStunt(bs)
    /\ (pc = "done" /\ destPtr.val.b # JEmpty) => bs = destPtr.val.b
    /\ (pc = "decoded" /\ prior.b # JEmpty) => ret = NoErr /\ destPtr.val = prior

\* C21 happens: a document was stored and written again.
C21_Witness ==
    /\ pc = "done" /\ destPtr.val = VStunt(TokPent(5)) /\ bs = TokPent(5)

\* C21 happens the other way round: a placeholder was written and decoded.
C21_WitnessDecoded ==
    /\ pc = "decoded" /\ prior = VStunt(TokAlien) /\ bs = TokAlien /\ destPtr.val = prior

\* C21 as stated, for every byte string and every placeholder, the empty
\* ones too.
C21_Original ==
    /\ (pc = "stored" /\ destPtr.h = "ptr") => ret = NoErr /\ destPtr.val = VStunt(bs)
    /\ pc = "done" => bs = destPtr.val.b
    /\ pc = "decoded" => ret = NoErr /\ destPtr.val = prior

RECURSIVE Expected(_, _)
\* What the reconciler makes of the shadow value sd for the real type t,
\* with the resolver's result for every placeholder; of a map, an entry for
\* every shadow entry.
Expected(sd, t) ==
    CASE sd.t = "stunt" -> Resolved(sd.b)
      [] sd.t = "ptr" -> VPtr(Expected(sd.p, t.elem))
      [] sd.t = "seq" -> VSeq([i \in 1..Len(sd.e) |-> Expected(sd.e[i], t.elem)])
      [] sd.t = "struct" -> VStruct([i \in 1..Len(sd.f) |-> Expected(sd.f[i], t.fields[i].type)])
      [] sd.t = "map" -> VMap({Entry(Expected(e.k, t.key), Expected(e.v, t.elem)) : e \in sd.m})
      [] sd.t = "nil" /\ t.kind = "slice" -> VSeq(<<>>)
      [] sd.t = "nil" /\ t.kind = "map" -> VMap({})
      [] OTHER -> sd

RECURSIVE MapNodes(_, _, _)
\* The maps of the shadow value sd with the maps of the value real, of type
\* t, at the same places: <<shadow map, real map, real type>>.
MapNodes(sd, real, t) ==
    CASE t.kind = "map" -> {<<sd, real, t>>}
      [] t.kind = "ptr" /\ sd # VNil /\ real # VNil -> MapNodes(sd.p, real.p, t.elem)
      [] t.kind \in {"array", "slice"} /\ sd # VNil /\ real # VNil ->
            UNION {MapNodes(sd.e[i], real.e[i], t.elem) :
                     i \in 1..(IF Len(sd.e) < Len(real.e) THEN Len(sd.e) ELSE Len(real.e))}
      [] t.kind = "struct" ->
            UNION {MapNodes(sd.f[i], real.f[i], t.fields[i].type) : i \in 1..Len(t.fields)}
      [] OTHER -> {}

\* The entries of a map value, none for a nil map.
EntriesOf(v) == IF v = VNil THEN {} ELSE v.m

\* The real map of the node n holds reconciled shadow entries and nothing
\* else, and one entry for every reconciled key.
OnePerKey(n) ==
    LET want == EntriesOf(Expected(n[1], n[3]))
        have == EntriesOf(n[2])
    IN  /\ n[2] # VNil
        /\ have \subseteq want
        /\ {f.k : f \in have} = {e.k : e \in want}
        /\ Cardinality(have) = Cardinality({f.k : f \in have})

\* C22: after a successful reconcile every destination map is a new map
\* that holds reconciled entries of the shadow map and nothing else, one
\* for every reconciled key: as many entries as the shadow map where the
\* reconciled keys differ from each other, fewer where resolvers returned
\* equal keys for different shadow keys.
C22_MapOnePerKey ==
    ShadowSuccess =>
        \A n \in MapNodes(Shadow, destPtr.val, destPtr.type) :
            /\ OnePerKey(n)
            /\ Cardinality(EntriesOf(n[2])) <= Cardinality(EntriesOf(n[1]))
            /\ (\A e1, e2 \in EntriesOf(n[1]) :
                    e1.k # e2.k => Expected(e1.k, n[3].key) # Expected(e2.k, n[3].key))
                  => Cardinality(EntriesOf(n[2])) = Cardinality(EntriesOf(n[1]))

\* C22 happens: a map with two interface values was decoded from two
\* members, each value through the resolver.
C22_Witness ==
    /\ ShadowSuccess
    /\ destPtr.type = BuildType(<<"mapval">>, TIface(NameI))
    /\ Shadow = VMap({Entry(VStr("1"), VStunt(TokPent(5))), Entry(VStr("2"), VStunt(TokPent(5)))})
    /\ destPtr.val = VMap({Entry(VStr("1"), ValPent), Entry(VStr("2"), ValPent)})

\* C22 happens with two shadow keys for which the resolver returned equal
\* values: the destination map holds one entry.
C22_WitnessEqualKeys ==
    /\ ShadowSuccess
    /\ destPtr.type = BuildType(<<"mapkey">>, TIface(NameI))
    /\ Cardinality(EntriesOf(Shadow)) = 2
    /\ destPtr.val = VMap({Entry(ValPent, VStr("hi"))})

\* C22 as stated: the destination map has the entry count of the shadow map.
C22_Original ==
    ShadowSuccess =>
        \A n \in MapNodes(Shadow, destPtr.val, destPtr.type) :
            OnePerKey(n) /\ Cardinality(EntriesOf(n[2])) = Cardinality(EntriesOf(n[1]))

\* The events of the caller's own call, in their order.
OwnEvents == SelectSeq(log, LAMBDA ev : ev.depth = 0)

\* The call took the shadow path: the Deriver answered needsShadow=true.
ShadowPath ==
    /\ pc = "done" /\ destPtr.h = "ptr"
    /\ Derived.err = NoErr /\ Derived.hasStunt

\* C23: on the shadow path the call derives, then decodes the input into a
\* fresh shadow value, and only then calls resolvers; when that decode
\* fails the call returns the decoder's error with the context
\* "json.Unmarshal error", no resolver was called and the destination holds
\* what it held before.
C23_PhaseOrdering ==
    ShadowPath =>
        /\ Len(OwnEvents) >= 2
        /\ OwnEvents[1].ev = "derive" /\ OwnEvents[2].ev = "parse"
        /\ \A i \in 3..Len(OwnEvents) : OwnEvents[i].ev = "cb"
        /\ ShadowValue.err # NoErr =>
              /\ ret = ErrFmt("json.Unmarshal error", ShadowValue.err)
              /\ CBEvents = {}
              /\ destPtr.val = prior

\* C23 happens: the struct held a number and a value; the input has a
\* string for the number beside a document for the slot, nothing was
\* resolved and the struct is as it was.
C23_Witness ==
    /\ ShadowPath
    /\ destPtr.type = BuildType(<<"ptr", "beside">>, TInt)
    /\ bs = BuildDoc(<<"ptr", "beside">>, <<JStr("x")>>)
    /\ prior = VPtr(VStruct(<<VInt(7), ValPent>>))
    /\ ret = ErrFmt("json.Unmarshal error", TypeError)
    /\ destPtr.val = prior /\ CBEvents = {}

RECURSIVE HoldsPlaceholder(_)
\* Whether a placeholder, captured bytes, is somewhere in the value v.
HoldsPlaceholder(v) ==
    CASE v.t = "stunt" -> TRUE
      [] v.t = "ptr" -> HoldsPlaceholder(v.p)
      [] v.t = "dyn" -> HoldsPlaceholder(v.d)
      [] v.t = "seq" -> \E i \in 1..Len(v.e) : HoldsPlaceholder(v.e[i])
      [] v.t = "struct" -> \E i \in 1..Len(v.f) : HoldsPlaceholder(v.f[i])
      [] v.t = "map" -> \E e \in v.m : HoldsPlaceholder(e.k) \/ HoldsPlaceholder(e.v)
      [] OTHER -> FALSE

\* C24: the Reconciler finds the resolver of every slot the Deriver
\* replaced. Every resolver call is a call of a registered resolver with the
\* bytes of a placeholder of the shadow value; a successful call has made
\* one for every placeholder; the failure "cb result not assignable" is the
\* failure of a resolver's value only, never of a placeholder for which no
\* resolver was found; and the destination never holds captured bytes.
C24_ConsistentLookup ==
    (ShadowPath /\ ShadowValue.err = NoErr) =>
        /\ \A i \in OwnCBEvents :
              /\ log[i].name \in DOMAIN cbs
              /\ \E n \in 1..Len(Placeholders(Shadow)) : Placeholders(Shadow)[n] = log[i].bs
        /\ ret = NoErr => Cardinality(OwnCBEvents) = Len(Placeholders(Shadow))
        /\ RootErr(ret) = ErrNew("cb result not assignable") => AlienEvents # {}
        /\ ~HoldsPlaceholder(destPtr.val)

\* C24 happens: two placeholders in a slice behind a pointer, each resolved.
C24_Witness ==
    /\ ShadowPath /\ ret = NoErr
    /\ destPtr.type = BuildType(<<"ptr", "slice">>, TIface(NameI))
    /\ Placeholders(Shadow) = <<TokPent(5), TokPent(5)>>
    /\ Cardinality(OwnCBEvents) = 2
    /\ destPtr.val = VPtr(VSeq(<<ValPent, ValPent>>))

\* The thread t is in no call: it has begun none, or its call has returned
\* or has panicked out of AddGlobalCB.
Outside(t) == th[t].pc \in {"idle", "panicked"}

\* A resolver inside GlobalUnmarshal, holding the read lock, waits for the
\* read lock of its own GlobalUnmarshal behind a writer that waits for the
\* readers to leave.
ReentryBlocked ==
    \E r, w \in Threads :
        /\ th[r].pc = "gu_cb" /\ th[r].bs # TokPent(5)
        /\ globalCBs.writer = w /\ th[w].pc \in {"add_wait", "reset_wait"}

\* C25: under a fair scheduler every call of AddGlobalCB, ResetGlobalCBs
\* and GlobalUnmarshal that has begun returns, also the GlobalUnmarshal
\* whose resolver calls GlobalUnmarshal again while a writer waits.
C25_EveryCallReturns == \A t \in Threads : (~Outside(t)) ~> Outside(t)

\* Every call returns unless a resolver's GlobalUnmarshal is blocked behind
\* a waiting writer.
C25_ReturnsUnlessBlocked == \A t \in Threads : (~Outside(t)) ~> (Outside(t) \/ ReentryBlocked)

\* Once a resolver's GlobalUnmarshal is blocked behind a waiting writer it
\* stays so: neither thread can take a step.
C25_BlockedForever == [][ReentryBlocked => ReentryBlocked']_vars

\* A thread inside an AddGlobalCB of a name that is registered.
FailingAdd(t) ==
    /\ th[t].pc \in {"add_in", "add_panic"}
    /\ Has(globalCBs.m, th[t].name)

\* C26: a failed registration has no effect. From the moment AddGlobalCB finds
\* the name registered until it has panicked, every step leaves the registry
\* as it is (the name keeps its resolver, no other entry changes), and the
\* step that leaves the call releases the exclusive lock.
C26_FailedAddNoEffect ==
    [][\A t \in Threads :
          FailingAdd(t) =>
              /\ globalCBs'.m = globalCBs.m
              /\ th'[t].pc \in {"add_in", "add_panic", "panicked"}
              /\ th'[t].pc = "panicked" => globalCBs'.writer = 0]_vars

\* C26, the calls after the failed one: a thread that has panicked holds no
\* lock, so whenever no other call holds the lock the next Lock or RLock is
\* taken at once.
C26_LaterCallsNotBlocked ==
    \A t \in Threads :
        th[t].pc = "panicked" =>
            /\ globalCBs.writer # t
            /\ (\A u \in Threads : th[u].pc \in {"idle", "panicked"}) =>
                   globalCBs.writer = 0 /\ globalCBs.readers = 0

\* An AddGlobalCB has failed, the name has the resolver of the first
\* registration, and a later GlobalUnmarshal is inside.
C26_Witness ==
    \E t, u \in Threads :
        /\ th[t].pc = "panicked" /\ th[t].name = NameI /\ th[t].cb = "cb2"
        /\ globalCBs.m = [n \in {NameI} |-> "cb1"]
        /\ th[u].pc = "gu_out"

\* After a failed AddGlobalCB a later AddGlobalCB and a later ResetGlobalCBs
\* are inside.
C26_WitnessWriters ==
    /\ \E t, u \in Threads : th[t].pc = "panicked" /\ th[u].pc \in {"add_in", "reset_in"}
    /\ globalCBs.writer # 0

RECURSIVE NamesItself(_, _)
\* Whether the declared type n lies in t, behind other declared types too;
\* seen are the declared types passed on the way.
NamesItself(t, seen) ==
    CASE t.kind = "decl" ->
            t.name \in seen \/ NamesItself(Declared(t.name), seen \cup {t.name})
      [] t.kind \in {"ptr", "array", "slice"} -> NamesItself(t.elem, seen)
      [] t.kind = "struct" -> \E i \in 1..Len(t.fields) : NamesItself(t.fields[i].type, seen)
      [] t.kind = "map" -> NamesItself(t.key, seen) \/ NamesItself(t.elem, seen)
      [] OTHER -> FALSE
\* A destination type that holds a self-referential type.
SelfReferential == NamesItself(destPtr.type, {})

\* C27: the Deriver terminates for every destination type, self-referential
\* types too: every call of stuntdoubleType returns, a shadow type or an error.
C27_DeriverTerminates == <>(pc = "returned")

\* C27, elsewhere: for a destination type that holds no self-referential
\* type the call returns.
C27_TerminatesElsewhere == (~SelfReferential) => <>(pc = "returned")

\* C27, the self-referential types: the recursion never returns and ends in
\* the stack overflow; no other type overflows.
C27_OverflowsOnSelfReference ==
    /\ SelfReferential => pc # "returned"
    /\ pc = "overflow" => SelfReferential

\* C27, why the recursion has no end whatever room the stack has: at the
\* overflow a call for a type is on the stack inside a call for the same
\* type with the same registry, and the function has no other state.
C27_SameCallAgain ==
    pc = "overflow" =>
        \E i, j \in 1..Len(stack) :
            i < j /\ RealTypeOf(stack[i].type) = RealTypeOf(stack[j].type)

\* C27, the two models of the Deriver agree: for a type without declared
\* types the calls return the error the function stuntdoubleType gives.
C27_SameAsFunction ==
    (pc = "returned" /\ ~NamesItself(destPtr.type, {"Cow"})) =>
        ret = stuntdoubleType(destPtr.type, cbs).err

\* A resolver call that makes its reconciliation step fail: the resolver
\* returned an error, no value, or a value the slot cannot be assigned.
FailedCB(ev) ==
    /\ ev.ev = "cb"
    /\ \/ ev.err # NoErr
       \/ ev.val = VInvalid
       \/ ~AssignableTo(TConcrete(ev.val.ty), TIface(ev.name))

\* Whether the reconciliation of the node alone fails.
FailsAt(sd, sdType, real, realType, flag) ==
    stuntdoubleToReal(sd, sdType, real, realType, cbs, flag, [i \in 1..MaxLen |-> i], 0).err # NoErr

\* The first of the positions 1..n whose reconciliation fails, 0 for none.
FirstFailing(n, fails(_)) ==
    IF \E i \in 1..n : fails(i)
    THEN CHOOSE i \in 1..n : fails(i) /\ \A j \in 1..(i - 1) : ~fails(j)
    ELSE 0

RECURSIVE AbortedAt(_, _, _, _, _, _)
\* The node, whose reconciliation fails, after the call: was is its value
\* before the call, now its value after. A slice, a map and a slot are as
\* they were; in a struct and an array what comes after the failing
\* position is as it was and the failing position is aborted likewise; a
\* pointer that was followed points to a pointee aborted likewise.
AbortedAt(sd, sdType, was, now, realType, flag) ==
    CASE realType.kind = "ptr" /\ sdType.kind = "ptr" /\ sd # VNil /\ (was # VNil \/ CanSet(flag)) ->
            /\ now # VNil
            /\ AbortedAt(sd.p, sdType.elem, IF was = VNil THEN Zero(realType.elem) ELSE was.p,
                         now.p, realType.elem, Child(flag))
      [] realType.kind = "struct" /\ sdType.kind = "struct" ->
            LET fails(i) == FailsAt(sd.f[i], sdType.fields[i].type, was.f[i],
                                    realType.fields[i].type, FieldFlag(flag, realType.fields[i]))
                k == FirstFailing(Len(realType.fields), fails)
            IN  /\ k # 0
                /\ \A i \in (k + 1)..Len(realType.fields) : now.f[i] = was.f[i]
                /\ AbortedAt(sd.f[k], sdType.fields[k].type, was.f[k], now.f[k],
                             realType.fields[k].type, FieldFlag(flag, realType.fields[k]))
      [] realType.kind = "array" /\ sdType.kind = "array" /\ sd # VNil ->
            LET fails(i) == FailsAt(sd.e[i], sdType.elem, was.e[i], realType.elem, Child(flag))
                k == FirstFailing(realType.len, fails)
            IN  /\ k # 0
                /\ \A i \in (k + 1)..realType.len : now.e[i] = was.e[i]
                /\ AbortedAt(sd.e[k], sdType.elem, was.e[k], now.e[k], realType.elem, Child(flag))
      [] OTHER -> now = was

\* The call reached the Reconciler and failed there.
ReconciliationFailed ==
    /\ ShadowPath /\ ShadowValue.err = NoErr
    /\ ret # NoErr

\* C28: abort at first failure. Once a resolver call has failed, no further
\* resolver is called in that Unmarshal call (the events after it belong to
\* the calls that enclose it); the slice or map at the failing node holds
\* what it held before the call, and so does everything but the struct
\* fields, array elements and pointees reconciled before the failure.
C28_AbortAtFirstFailure ==
    pc = "done" =>
        /\ \A i \in DOMAIN log :
              FailedCB(log[i]) => \A j \in (i + 1)..Len(log) : log[j].depth < log[i].depth
        /\ ReconciliationFailed =>
              AbortedAt(VPtr(ShadowValue.val), TPtr(Derived.type), VPtr(prior), VPtr(destPtr.val),
                        TPtr(destPtr.type), "top")

RECURSIVE HoldsSlice(_, _)
\* Whether a slice with elements lies in the value v of type t.
HoldsSlice(v, t) ==
    CASE t.kind = "slice" -> v # VNil /\ Len(v.e) > 0
      [] t.kind = "ptr" -> v # VNil /\ HoldsSlice(v.p, t.elem)
      [] t.kind = "struct" -> \E i \in 1..Len(t.fields) : HoldsSlice(v.f[i], t.fields[i].type)
      [] OTHER -> FALSE

\* C28 happens: the destination held a slice with a value; the resolver of
\* the second element of the input failed after the first had succeeded,
\* and the destination holds the slice it held.
C28_Witness ==
    /\ ReconciliationFailed /\ ret.kind # "panic"
    /\ Cardinality(OwnCBEvents) = 2
    /\ \E i \in OwnCBEvents : ~FailedCB(log[i])
    /\ HoldsSlice(prior, destPtr.type) /\ destPtr.val = prior

\* C28 happens in a struct: the field before the failing slot is modified,
\* the call failed.
C28_WitnessPartial ==
    /\ ReconciliationFailed /\ ret.kind # "panic"
    /\ destPtr.val # prior
    /\ \E i \in OwnCBEvents : FailedCB(log[i])

\* A resolver of the call returned a nil value together with a nil error.
NilResult == \E i \in CBEvents : log[i].val = VInvalid /\ log[i].err = NoErr

\* C29: Unmarshal never crashes on a resolver's return: when a resolver
\* returns a nil value with a nil error the call returns normally, with the
\* slot left null or with an error, and not with a run-time panic.
C29_NilResultReturns ==
    (pc = "done" /\ NilResult) => ret.kind # "panic"

\* C29, what the code does: the call ends in the panic of sd.Type() on the
\* zero reflect.Value, whatever the destination.
C29_NilResultPanics ==
    (pc = "done" /\ NilResult) =>
        ret = Panic("reflect: call of reflect.Value.Type on zero Value")

\* C29, elsewhere: a resolver that returns a value or an error never makes
\* the call panic on its return (the panics left are those of reflect on
\* fields that are not exported, of real.Set and of the map's hash).
C29_OtherResultsReturn ==
    (pc = "done" /\ ret.kind = "panic" /\ ~NilResult) =>
        ret.msg \in {"reflect.StructOf: StructOf does not allow unexported fields",
                     "reflect.Value.Interface: cannot return value obtained from unexported field or method",
                     "reflect.Value.Set using value obtained using unexported field",
                     "reflect.Set: value is not assignable",
                     "hash of unhashable type"}

RECURSIVE NullForEmpty(_)
\* The value with null for every slice and map without elements.
NullForEmpty(v) ==
    CASE v.t = "ptr" -> VPtr(NullForEmpty(v.p))
      [] v.t = "seq" -> IF v.e = <<>> THEN VNil
                        ELSE VSeq([i \in 1..Len(v.e) |-> NullForEmpty(v.e[i])])
      [] v.t = "struct" -> VStruct([i \in 1..Len(v.f) |-> NullForEmpty(v.f[i])])
      [] v.t = "map" -> IF v.m = {} THEN VNil
                        ELSE VMap({Entry(NullForEmpty(e.k), NullForEmpty(e.v)) : e \in v.m})
      [] OTHER -> v

\* The two values are the same; when exact is false, but for null slices
\* and maps.
Same(a, b, exact) == IF exact THEN a = b ELSE NullForEmpty(a) = NullForEmpty(b)

RECURSIVE CarriedOver(_, _, _, _, _)
\* Every part of the value real whose shadow type is its real type is what
\* the generic decoder made of the input for it, which is what the shadow
\* value sd holds there; exact tells how the two are compared.
CarriedOver(sd, sdType, real, realType, exact) ==
    IF sdType = realType THEN Same(real, sd, exact)
    ELSE CASE realType.kind = "ptr" /\ sd # VNil /\ real # VNil ->
                 CarriedOver(sd.p, sdType.elem, real.p, realType.elem, exact)
           [] realType.kind \in {"array", "slice"} /\ sd # VNil /\ real # VNil ->
                 /\ Len(real.e) = Len(sd.e)
                 /\ \A i \in 1..Len(sd.e) :
                       CarriedOver(sd.e[i], sdType.elem, real.e[i], realType.elem, exact)
           [] realType.kind = "struct" ->
                 \A i \in 1..Len(realType.fields) :
                     CarriedOver(sd.f[i], sdType.fields[i].type, real.f[i],
                                 realType.fields[i].type, exact)
           [] realType.kind = "map" /\ sd # VNil /\ real # VNil ->
                 /\ sdType.key = realType.key =>
                       \A e \in sd.m : \E f \in real.m :
                           /\ Same(f.k, e.k, exact)
                           /\ CarriedOver(e.v, sdType.elem, f.v, realType.elem, exact)
                 /\ sdType.elem = realType.elem =>
                       \A f \in real.m : \E e \in sd.m : Same(f.v, e.v, exact)
           [] OTHER -> TRUE

RECURSIVE NeverFails(_, _, _, _, _)
\* The reconciliation of no part whose shadow type is its real type fails;
\* was is the value of the part before the call, flag its reflect flags.
NeverFails(sd, sdType, was, realType, flag) ==
    IF sdType = realType THEN ~FailsAt(sd, sdType, was, realType, flag)
    ELSE CASE realType.kind = "ptr" /\ sd # VNil ->
                 NeverFails(sd.p, sdType.elem, IF was = VNil THEN Zero(realType.elem) ELSE was.p,
                            realType.elem, Child(flag))
           [] realType.kind = "array" /\ sd # VNil ->
                 \A i \in 1..Len(sd.e) :
                     NeverFails(sd.e[i], sdType.elem, was.e[i], realType.elem, Child(flag))
           [] realType.kind = "slice" /\ sd # VNil ->
                 \A i \in 1..Len(sd.e) :
                     NeverFails(sd.e[i], sdType.elem, Zero(realType.elem), realType.elem, Fresh(flag))
           [] realType.kind = "struct" ->
                 \A i \in 1..Len(realType.fields) :
                     NeverFails(sd.f[i], sdType.fields[i].type, was.f[i], realType.fields[i].type,
                                FieldFlag(flag, realType.fields[i]))
           [] realType.kind = "map" /\ sd # VNil ->
                 \A e \in sd.m :
                     /\ NeverFails(e.k, sdType.key, Zero(realType.key), realType.key, Fresh(flag))
                     /\ NeverFails(e.v, sdType.elem, Zero(realType.elem), realType.elem, Fresh(flag))
           [] OTHER -> TRUE

\* The call decoded the input into a shadow value and reconciled it.
Reconciled == ShadowPath /\ ShadowValue.err = NoErr

\* C30: unsubstituted subtrees are carried over faithfully. In a destination
\* that needs a shadow, the reconciliation of a part whose shadow type is
\* its real type never fails, and after a successful call such a part
\* equals what the generic decoder made for it from the same input; structs
\* with fields that are not exported, null slices and null maps included.
C30_UnsubstitutedCarriedOver ==
    Reconciled =>
        /\ NeverFails(ShadowValue.val, Derived.type, prior, destPtr.type, "rw")
        /\ ret = NoErr =>
              CarriedOver(ShadowValue.val, Derived.type, destPtr.val, destPtr.type,
                          TRUE)

RECURSIVE HoldsPrivField(_)
\* Whether a struct with a field that is not exported lies in the type.
HoldsPrivField(t) ==
    CASE t.kind \in {"ptr", "array", "slice"} -> HoldsPrivField(t.elem)
      [] t.kind = "map" -> HoldsPrivField(t.key) \/ HoldsPrivField(t.elem)
      [] t.kind = "struct" ->
            \E i \in 1..Len(t.fields) :
                ~t.fields[i].exported \/ HoldsPrivField(t.fields[i].type)
      [] OTHER -> FALSE

\* C30, what the code does: where no struct has a field that is not
\* exported the reconciliation of such a part never fails, and after a
\* successful call such a part is what the generic decoder made, but for
\* its null slices and null maps, which are slices and maps without elements.
C30_CarriedButNull ==
    Reconciled =>
        /\ ~HoldsPrivField(destPtr.type) =>
              NeverFails(ShadowValue.val, Derived.type, prior, destPtr.type, "rw")
        /\ ret = NoErr =>
              CarriedOver(ShadowValue.val, Derived.type, destPtr.val, destPtr.type,
                          FALSE)

\* C30, the field that is not exported: the reconciliation of a struct
\* whose shadow type is its real type fails on such a field.
C30_PrivFieldFails ==
    (Reconciled /\ ~NeverFails(ShadowValue.val, Derived.type, prior, destPtr.type, "rw")) =>
        HoldsPrivField(destPtr.type)

\* C30 fails on a null slice or map: no field is unexported, the call
\* succeeded, and a part whose shadow type is its real type differs from
\* what the generic decoder made.
C30_NullDiffers ==
    /\ Reconciled /\ ret = NoErr /\ ~HoldsPrivField(destPtr.type)
    /\ prior = Zero(destPtr.type)
    /\ ~CarriedOver(ShadowValue.val, Derived.type, destPtr.val, destPtr.type, TRUE)

\* C30 fails on a struct with a field that is not exported beside the
\* slot: the struct's shadow type is its real type, reflect.StructOf is not
\* called for it, and its reconciliation fails.
C30_PrivStructFails ==
    /\ Reconciled /\ structOf = "panics"
    /\ destPtr.type = BuildType(<<"beside", "privfield">>, TInt)
    /\ RootErr(ret) = ErrNew("cannot set 02")
====
